---- MODULE Spec2Model ----
(***************************************************************************)
(* Model of the feature-flag-manager backend: the Flag document and its    *)
(* evaluation engine (models/flag.model.js), together with the management  *)
(* operations of services/flag.service.js that build the documents the     *)
(* engine evaluates.                                                       *)
(*                                                                         *)
(* JavaScript values are modelled as tokens (strings): "true", "false",    *)
(* "null", "undefined", "0", "" and the string payloads "A", "pro", ...    *)
(* Strict equality (===) of two tokens is equality of the tokens.  Strings *)
(* that are hashed (the flag key, context.userId) are sequences of UTF-16  *)
(* code units, as str.charCodeAt(i) reads them.                            *)
(***************************************************************************)
EXTENDS Integers, Sequences, FiniteSets, TLC

VARIABLES
    flag,            \* the stored Flag document
    now,             \* the wall clock read by new Date()
    lastCall,        \* the most recent step: an operation with its inputs and outcome
    str,             \* bucketing loop: the seed string userId + this.key
    i,               \* bucketing loop: the loop index
    hash,            \* bucketing loop: the running hash
    normalizedHash,  \* bucketing loop: Math.abs(hash % 100), or NotComputed
    projectFlags,    \* the Flag documents of the project, as Flag.find returns them
    recordings,      \* the recordEvaluation promises in flight
    metrics,         \* metrics.evaluations of the flag, the Evaluation documents created,
                     \* and whether a recordEvaluation promise has rejected
    previous,        \* an earlier evaluation: its inputs and its result
    manager,         \* SDK: the FlagManager instance, its options and its cache
    calls,           \* SDK: the getValue calls in progress
    served,          \* SDK: the evaluations the server has answered
    projects,        \* the Project collection
    storedFlags,     \* the Flag collection of the management services
    inFlight         \* management requests between two of their awaits

vars == <<flag, now, lastCall, str, i, hash, normalizedHash,
          projectFlags, recordings, metrics, previous, manager, calls, served,
          projects, storedFlags, inFlight>>

(***************************************************************************)
(* Bounds of the model.                                                    *)
(***************************************************************************)
MaxRules == 2        \* rules stored in one environment
MaxTime == 3         \* clock readings 1..MaxTime
MaxSeedLen == 4      \* code units of a seed string in the bucketing runs
MaxRecordings == 2   \* recordEvaluation promises in flight, and documents they create
MaxFlags == 2        \* flags of the project besides the flag of the single-flag endpoint
MaxCallers == 2      \* concurrent callers of FlagManager.getValue
MaxVariations == 3   \* variations stored in one environment
MaxClients == 2      \* concurrent requests to the management services

(***************************************************************************)
(* JavaScript values.                                                      *)
(***************************************************************************)
JsTrue == "true"
JsFalse == "false"
Null == "null"
Undefined == "undefined"

\* The values ToBoolean maps to false (NaN does not occur in the model).
Falsy == {JsFalse, Null, Undefined, "0", ""}

\* a || b
Or(a, b) == IF a \in Falsy THEN b ELSE a

(***************************************************************************)
(* 32-bit integer arithmetic.  A JavaScript number that is an integer      *)
(* beyond 32 bits (the intermediate (hash << 5) - hash + code) is held as  *)
(* hi * 65536 + lo with 0 <= lo < 65536, so that no step leaves the        *)
(* integers the checker computes with.                                     *)
(***************************************************************************)
Norm(hi, lo) == [hi |-> hi + (lo \div 65536), lo |-> lo % 65536]

Wide(x) == [hi |-> x \div 65536, lo |-> x % 65536]

WideSub(a, b) == Norm(a.hi - b.hi, a.lo - b.lo)

WideAdd(a, b) == Norm(a.hi + b.hi, a.lo + b.lo)

WideMul(a, k) == Norm(a.hi * k, a.lo * k)

\* ToInt32: the value modulo 2^32, read as a signed 32-bit integer.
ToInt32(w) == (((w.hi + 32768) % 65536) - 32768) * 65536 + w.lo

\* x << n for a 32-bit x
ShiftLeft(x, n) == ToInt32(WideMul(Wide(x), 2 ^ n))

\* a % n of JavaScript: the remainder takes the sign of the dividend.
JsRemainder(a, n) ==
    IF a >= 0 THEN a % n
    ELSE IF a % n = 0 THEN 0 ELSE (a % n) - n

MathAbs(x) == IF x < 0 THEN 0 - x ELSE x

(***************************************************************************)
(* The bucketing of a PERCENTAGE rule (flag.model.js, evaluateRule).       *)
(***************************************************************************)
NotComputed == 0 - 1

\* One iteration of the loop: hash = ((hash << 5) - hash) + code; hash & hash
hashStep(h, code) ==
    ToInt32(WideAdd(WideSub(Wide(ShiftLeft(h, 5)), Wide(h)), Wide(code)))

RECURSIVE hashFrom(_, _, _)
hashFrom(s, k, h) ==
    IF k > Len(s) THEN h ELSE hashFrom(s, k + 1, hashStep(h, s[k]))

\* let hash = 0; for (let i = 0; i < str.length; i++) { ... }
hashOf(s) == hashFrom(s, 1, 0)

\* A plausible slip: the sign of hash % 100 is kept.
normalizeNoAbs(h) == JsRemainder(h, 100)

\* const normalizedHash = Math.abs(hash % 100)
normalize(h) == MathAbs(JsRemainder(h, 100))

bucket(s) == normalize(hashOf(s))

(***************************************************************************)
(* Inputs of the model.                                                    *)
(***************************************************************************)
\* The flag key "g" and user ids over the code units U+2D67, "m", "W", "X".
\* bucket("mW" + "g") = 49, bucket("Xm" + "g") = 50, bucket("" + "g") = 3,
\* and the hash of U+2D67 "mWX" "g" is -2^31.
FlagKey == <<103>>
User49 == <<109, 87>>
User50 == <<88, 109>>
NoUser == <<>>

\* Environments declared on the project, and the ones a request may name.
ProjectEnvironments == {"production"}
RequestEnvironments == {"production", "staging"}

Times == 1 .. MaxTime

\* Evaluation contexts.  context[k] of a key the context lacks is undefined,
\* so a context is a total record; userId "" stands for an absent userId too
\* (context.userId || '' reads both the same).
Contexts ==
    { [userId |-> NoUser, plan |-> Undefined, region |-> Undefined, beta |-> Undefined],
      [userId |-> User49, plan |-> "pro", region |-> "us", beta |-> Undefined],
      [userId |-> User50, plan |-> "pro", region |-> Undefined, beta |-> Undefined],
      [userId |-> User50, plan |-> "free", region |-> "us", beta |-> JsTrue],
      [userId |-> User49, plan |-> Undefined, region |-> Undefined, beta |-> JsFalse] }

\* Request bodies of addFlagRule.  Every type comes at the priorities 0 and
\* 10; the second shape of a type comes at one priority.
Priorities == {0, 10}

PercentageRules ==
    { [type |-> "PERCENTAGE", priority |-> p, value |-> 50] : p \in Priorities }
SegmentRules ==
    { [type |-> "USER_SEGMENT", priority |-> p,
       value |-> [plan |-> "pro", region |-> "us"]] : p \in Priorities }
        \cup { [type |-> "USER_SEGMENT", priority |-> 0, value |-> [beta |-> JsFalse]] }
ScheduledRules ==
    { [type |-> "SCHEDULED", priority |-> p,
       value |-> [startDate |-> 2, endDate |-> 2]] : p \in Priorities }
        \cup { [type |-> "SCHEDULED", priority |-> 10, value |-> [startDate |-> 2]] }
DefaultRules ==
    { [type |-> "DEFAULT", priority |-> p, value |-> "A"] : p \in Priorities }
        \cup { [type |-> "DEFAULT", priority |-> 0, value |-> "B"] }
\* A rule the schema validator rejects.
InvalidRules == { [type |-> "PERCENTAGE", priority |-> 0, value |-> 150] }

(***************************************************************************)
(* flagSchema.methods.evaluateRule                                         *)
(***************************************************************************)
\* rule.value of a stored rule that has no value (or a null one) reads
\* undefined (null): such a rule is a record without the value field.
hasValue(rule) == "value" \in DOMAIN rule

\* A plausible slip: the boundary bucket is let in (<=).
percentageMatchesInclusive(rule, context, key) ==
    hasValue(rule) /\ bucket(context.userId \o key) <= rule.value

\* A plausible slip: a counter of the flag enters the bucket, as in a
\* round-robin rollout.
percentageMatchesByCounter(rule, context, key) ==
    /\ hasValue(rule)
    /\ (bucket(context.userId \o key) + metrics.evaluations) % 100 < rule.value

\* case 'PERCENTAGE': str = (context.userId || '') + this.key;
\* matches: normalizedHash < percentageValue (false against undefined)
percentageMatches(rule, context, key) ==
    hasValue(rule) /\ bucket(context.userId \o key) < rule.value

\* case 'USER_SEGMENT': for each [key, value] of Object.entries(rule.value):
\* if (!context[key] || context[key] !== value) matches = false
segmentMatches(rule, context) ==
    \A k \in DOMAIN rule.value :
        ~ (context[k] \in Falsy \/ context[k] # rule.value[k])

\* A plausible slip: the end of the window is exclusive.
scheduledMatchesExclusiveEnd(rule, clock) ==
    LET hasStart == "startDate" \in DOMAIN rule.value
        hasEnd == "endDate" \in DOMAIN rule.value
        isAfterStart == hasStart /\ clock >= rule.value.startDate
        isBeforeEnd == IF hasEnd THEN clock < rule.value.endDate ELSE TRUE
    IN  isAfterStart /\ isBeforeEnd

\* case 'SCHEDULED': now >= start && (end ? now <= end : true); without a
\* startDate, start is an invalid Date and now >= start is false
scheduledMatches(rule, clock) ==
    LET hasStart == "startDate" \in DOMAIN rule.value
        hasEnd == "endDate" \in DOMAIN rule.value
        isAfterStart == hasStart /\ clock >= rule.value.startDate
        isBeforeEnd == IF hasEnd THEN clock <= rule.value.endDate ELSE TRUE
    IN  isAfterStart /\ isBeforeEnd

\* A plausible slip: DEFAULT emits the constant true like the other types.
defaultRuleResultTrue(rule) == [matches |-> TRUE, value |-> JsTrue]

\* case 'DEFAULT': { matches: true, value: rule.value }
defaultRuleResult(rule) ==
    [matches |-> TRUE, value |-> IF hasValue(rule) THEN rule.value ELSE Undefined]

\* Object.entries(segmentValue) and the destructuring of rule.value raise a
\* TypeError when the value is null or undefined.
evaluateRuleThrows(rule) ==
    /\ rule.type \in {"USER_SEGMENT", "SCHEDULED"}
    /\ ~ hasValue(rule)

evaluateRule(rule, context, key, clock) ==
    CASE rule.type = "PERCENTAGE" ->
            [matches |-> percentageMatches(rule, context, key), value |-> JsTrue]
      [] rule.type = "USER_SEGMENT" ->
            [matches |-> segmentMatches(rule, context), value |-> JsTrue]
      [] rule.type = "SCHEDULED" ->
            [matches |-> scheduledMatches(rule, clock), value |-> JsTrue]
      [] rule.type = "DEFAULT" -> defaultRuleResult(rule)
      [] OTHER -> [matches |-> FALSE, value |-> Null]

(***************************************************************************)
(* [...envSettings.rules].sort((a, b) => b.priority - a.priority)          *)
(* Array.prototype.sort is stable: an element goes behind every element    *)
(* the comparator does not put after it.                                   *)
(***************************************************************************)
\* A plausible slip: ascending order.
compareAscending(a, b) == a.priority - b.priority

compare(a, b) == b.priority - a.priority

RECURSIVE insertUnstable(_, _)
\* A plausible slip: an unstable sort, equal priorities come out reversed.
insertUnstable(sorted, x) ==
    IF Len(sorted) = 0 THEN <<x>>
    ELSE IF compare(Head(sorted), x) < 0
         THEN <<Head(sorted)>> \o insertUnstable(Tail(sorted), x)
         ELSE <<x>> \o sorted

RECURSIVE insertStable(_, _)
insertStable(sorted, x) ==
    IF Len(sorted) = 0 THEN <<x>>
    ELSE IF compare(Head(sorted), x) <= 0
         THEN <<Head(sorted)>> \o insertStable(Tail(sorted), x)
         ELSE <<x>> \o sorted

RECURSIVE sortFrom(_, _, _)
sortFrom(rules, k, sorted) ==
    IF k > Len(rules) THEN sorted
    ELSE sortFrom(rules, k + 1, insertStable(sorted, rules[k]))

sortedRules(rules) == sortFrom(rules, 1, <<>>)

(***************************************************************************)
(* flagSchema.methods.getDefaultValue                                      *)
(***************************************************************************)
RECURSIVE findVariation(_, _, _)
\* variations.find(v => v.key === defaultKey): the value of the first
\* variation with that key, or null when there is none
findVariation(variations, k, defaultKey) ==
    IF k > Len(variations) THEN Null
    ELSE IF variations[k].key = defaultKey THEN variations[k].value
         ELSE findVariation(variations, k + 1, defaultKey)

\* A plausible slip: the BOOLEAN branch is missing, variations come first.
getDefaultValueNoBooleanBranch(f, environment) ==
    LET envSettings == f.environments[environment]
    IN  IF Len(envSettings.variations) > 0
        THEN LET defaultKey == Or(envSettings.defaultVariation,
                                  envSettings.variations[1].key)
             IN  findVariation(envSettings.variations, 1, defaultKey)
        ELSE IF envSettings.value # Undefined THEN envSettings.value
             ELSE IF f.type = "BOOLEAN" THEN JsFalse ELSE Null

\* A plausible slip: defaultVariation is ignored, the first variation is taken.
getDefaultValueFirstVariation(f, environment) ==
    LET envSettings == f.environments[environment]
    IN  IF f.type = "BOOLEAN"
        THEN IF envSettings.value # Undefined THEN envSettings.value ELSE JsFalse
        ELSE IF Len(envSettings.variations) > 0
             THEN envSettings.variations[1].value
             ELSE IF envSettings.value # Undefined THEN envSettings.value ELSE Null

getDefaultValue(f, environment) ==
    LET envSettings == f.environments[environment]
    IN  IF f.type = "BOOLEAN"
        THEN IF envSettings.value # Undefined THEN envSettings.value ELSE JsFalse
        ELSE IF Len(envSettings.variations) > 0
             THEN LET defaultKey == Or(envSettings.defaultVariation,
                                       envSettings.variations[1].key)
                  IN  findVariation(envSettings.variations, 1, defaultKey)
             ELSE IF envSettings.value # Undefined THEN envSettings.value ELSE Null

(***************************************************************************)
(* flagSchema.methods.evaluate.  The outcome is a thrown error or a        *)
(* returned value; exit names the return statement that produced it.       *)
(***************************************************************************)
Throw(error) == [kind |-> "throw", error |-> error]
Return(value, exit) == [kind |-> "return", value |-> value, exit |-> exit]

RECURSIVE ruleLoopNoDefault(_, _, _, _, _, _)
\* A plausible slip: nothing is returned when no rule matches.
ruleLoopNoDefault(f, sorted, k, environment, context, clock) ==
    IF k > Len(sorted) THEN Return(Undefined, "noMatch")
    ELSE IF evaluateRuleThrows(sorted[k]) THEN Throw("TypeError")
    ELSE LET result == evaluateRule(sorted[k], context, f.key, clock)
         IN  IF result.matches THEN Return(result.value, "rule")
             ELSE ruleLoopNoDefault(f, sorted, k + 1, environment, context, clock)

RECURSIVE ruleLoop(_, _, _, _, _, _)
\* for (const rule of sortedRules) { ... }  return this.getDefaultValue(environment)
ruleLoop(f, sorted, k, environment, context, clock) ==
    IF k > Len(sorted) THEN Return(getDefaultValue(f, environment), "noMatch")
    ELSE IF evaluateRuleThrows(sorted[k]) THEN Throw("TypeError")
    ELSE LET result == evaluateRule(sorted[k], context, f.key, clock)
         IN  IF result.matches THEN Return(result.value, "rule")
             ELSE ruleLoop(f, sorted, k + 1, environment, context, clock)

\* The part of evaluate behind the enabled check.
evaluateEnabled(f, environment, context, clock) ==
    LET envSettings == f.environments[environment]
    IN  IF Len(envSettings.rules) = 0
        THEN Return(getDefaultValue(f, environment), "noRules")
        ELSE ruleLoop(f, sortedRules(envSettings.rules), 1, environment, context, clock)

\* A plausible slip: the enabled check is missing.
evaluateIgnoringEnabled(f, environment, context, clock) ==
    IF environment \notin DOMAIN f.environments
    THEN Throw("EnvironmentNotFound")
    ELSE evaluateEnabled(f, environment, context, clock)

\* A plausible slip: an unknown environment yields a default instead of an error.
evaluateDefaultingEnvironment(f, environment, context, clock) ==
    IF environment \notin DOMAIN f.environments
    THEN Return(JsFalse, "disabled")
    ELSE IF f.environments[environment].enabled \in Falsy
         THEN Return(getDefaultValue(f, environment), "disabled")
         ELSE evaluateEnabled(f, environment, context, clock)

evaluate(f, environment, context, clock) ==
    IF environment \notin DOMAIN f.environments
    THEN Throw("EnvironmentNotFound")
    ELSE IF f.environments[environment].enabled \in Falsy
         THEN Return(getDefaultValue(f, environment), "disabled")
         ELSE evaluateEnabled(f, environment, context, clock)

\* A plausible slip: envSettings.rules.sort(...) sorts the stored array.
thisAfterSortInPlace(f, environment) ==
    IF /\ environment \in DOMAIN f.environments
       /\ f.environments[environment].enabled \notin Falsy
    THEN [f EXCEPT !.environments[environment].rules = sortedRules(@)]
    ELSE f

\* The document after evaluate has run on it: evaluate assigns to nothing
\* of this, and sorts [...envSettings.rules], a copy of the stored array.
thisAfterEvaluate(f, environment) == f

(***************************************************************************)
(* Schema validation of the Flag document (run by Flag.create and save).   *)
(***************************************************************************)
\* ruleSchema value validator
ruleValueValid(rule) ==
    CASE ~ hasValue(rule) -> FALSE
      [] rule.type = "PERCENTAGE" -> rule.value >= 0 /\ rule.value <= 100
      [] rule.type = "USER_SEGMENT" -> TRUE
      [] rule.type = "SCHEDULED" -> "startDate" \in DOMAIN rule.value
      [] rule.type = "DEFAULT" -> rule.value # Undefined
      [] OTHER -> FALSE

\* A plausible slip: the schema has no validator for defaultVariation.
defaultVariationUnchecked(envSettings) == TRUE

\* defaultVariation validator
defaultVariationValid(envSettings) ==
    IF envSettings.defaultVariation \in Falsy THEN TRUE
    ELSE IF Len(envSettings.variations) = 0 THEN FALSE
    ELSE \E k \in 1 .. Len(envSettings.variations) :
            envSettings.variations[k].key = envSettings.defaultVariation

flagValid(f) ==
    \A env \in DOMAIN f.environments :
        /\ \A k \in 1 .. Len(f.environments[env].rules) :
              ruleValueValid(f.environments[env].rules[k])
        /\ defaultVariationValid(f.environments[env])

(***************************************************************************)
(* flag.service.js createFlag: the document built from the request body.   *)
(***************************************************************************)
\* environments[env] missing from the body: { enabled: false }
NoEnvData ==
    [enabled |-> JsFalse, rules |-> <<>>, value |-> Undefined,
     variations |-> <<>>, defaultVariation |-> Undefined]

createFlag(key, type, environments) ==
    [key |-> key,
     type |-> type,
     environments |->
        [env \in ProjectEnvironments |->
            LET envData == IF env \in DOMAIN environments
                           THEN environments[env] ELSE NoEnvData
            IN  [enabled |-> Or(envData.enabled, JsFalse),
                 rules |-> envData.rules,
                 value |-> IF type = "BOOLEAN" THEN Or(envData.value, JsFalse)
                           ELSE envData.value,
                 variations |-> envData.variations,
                 defaultVariation |-> Or(envData.defaultVariation, Null)]]]

TwoVariations == <<[key |-> "A", value |-> "1"], [key |-> "B", value |-> "2"]>>

\* Request bodies of createFlag: the flag types, and the settings a body
\* gives for the production environment (a body may give none).
FlagTypes == {"BOOLEAN", "STRING"}
StringEnvData ==
    { [NoEnvData EXCEPT !.variations = TwoVariations, !.defaultVariation = "B"] }

\* The documents createFlag builds from these bodies.
CreatedFlags ==
    { createFlag(FlagKey, type, <<>>) : type \in FlagTypes }
        \cup { createFlag(FlagKey, "STRING", [production |-> d]) : d \in StringEnvData }

(***************************************************************************)
(* The state machine of the evaluation engine.                             *)
(***************************************************************************)
bucketIdle == <<str, i, hash, normalizedHash>>

\* The services and the SDK at rest: nothing in flight, nothing recorded.
serviceVars == <<projectFlags, recordings, metrics, previous>>
sdkVars == <<manager, calls, served>>

NoCall == [op |-> "none"]

serviceIdle ==
    /\ projectFlags = <<>>
    /\ recordings = <<>>
    /\ metrics = [evaluations |-> 0, documents |-> 0, rejected |-> FALSE]
    /\ previous = NoCall

sdkIdle ==
    /\ manager = <<>>
    /\ calls = <<>>
    /\ served = {}

\* The management services at rest: no project, no request in flight.
projectVars == <<projects, storedFlags, inFlight>>

projectIdle ==
    /\ projects = {}
    /\ storedFlags = {}
    /\ inFlight = <<>>

Init ==
    /\ flag \in { f \in CreatedFlags : flagValid(f) }
    /\ now = 1
    /\ lastCall = [op |-> "createFlag", status |-> 201]
    /\ str = <<>>
    /\ i = 0
    /\ hash = 0
    /\ normalizedHash = NotComputed
    /\ serviceIdle
    /\ sdkIdle
    /\ projectIdle

\* flag.service.js toggleFlag
toggleFlag(environment) ==
    /\ IF environment \notin DOMAIN flag.environments
       THEN /\ flag' = flag
            /\ lastCall' = [op |-> "toggleFlag", status |-> 404]
       ELSE \E enabled \in {JsTrue, JsFalse} :
            /\ flag' = [flag EXCEPT !.environments[environment].enabled = enabled]
            /\ lastCall' = [op |-> "toggleFlag", status |-> 200]
    /\ UNCHANGED <<now, bucketIdle, serviceVars, sdkVars, projectVars>>

\* currentSettings.rules.push(ruleData); await flag.save()
pushRule(environment, ruleData) ==
    LET pushed == [flag EXCEPT !.environments[environment].rules =
                                    Append(@, ruleData)]
    IN  /\ Len(flag.environments[environment].rules) < MaxRules
        /\ IF flagValid(pushed)
           THEN /\ flag' = pushed
                /\ lastCall' = [op |-> "addFlagRule", status |-> 200]
           ELSE /\ flag' = flag
                /\ lastCall' = [op |-> "addFlagRule", status |-> 400]

\* flag.service.js addFlagRule: push the rule, then save() validates
addFlagRule(environment) ==
    /\ IF environment \notin DOMAIN flag.environments
       THEN /\ flag' = flag
            /\ lastCall' = [op |-> "addFlagRule", status |-> 404]
       ELSE \/ \E ruleData \in PercentageRules : pushRule(environment, ruleData)
            \/ \E ruleData \in SegmentRules : pushRule(environment, ruleData)
            \/ \E ruleData \in ScheduledRules : pushRule(environment, ruleData)
            \/ \E ruleData \in DefaultRules : pushRule(environment, ruleData)
            \/ \E ruleData \in InvalidRules : pushRule(environment, ruleData)
    /\ UNCHANGED <<now, bucketIdle, serviceVars, sdkVars, projectVars>>

\* rules.filter(rule => rule._id.toString() !== ruleId); a rule's _id is
\* modelled by its position in the array
withoutRule(rules, ruleId) ==
    SubSeq(rules, 1, ruleId - 1) \o SubSeq(rules, ruleId + 1, Len(rules))

\* flag.service.js deleteRule
deleteRule(environment) ==
    /\ IF environment \notin DOMAIN flag.environments
       THEN /\ flag' = flag
            /\ lastCall' = [op |-> "deleteRule", status |-> 404]
       ELSE \E ruleId \in 1 .. MaxRules :
            /\ flag' = [flag EXCEPT !.environments[environment].rules =
                                        IF ruleId <= Len(@) THEN withoutRule(@, ruleId) ELSE @]
            /\ lastCall' = [op |-> "deleteRule", status |-> 200]
    /\ UNCHANGED <<now, bucketIdle, serviceVars, sdkVars, projectVars>>

\* flag.evaluate(environment, context): the clock is read by new Date()
Evaluate(environment, context) ==
    /\ lastCall' = [op |-> "evaluate", environment |-> environment,
                    context |-> context,
                    outcome |-> evaluate(flag, environment, context, now)]
    /\ flag' = thisAfterEvaluate(flag, environment)
    /\ UNCHANGED <<now, bucketIdle, serviceVars, sdkVars, projectVars>>

\* Time passes; the outcome of an earlier call is no longer the outcome of a
\* call made now.
Tick ==
    /\ now < MaxTime
    /\ now' = now + 1
    /\ lastCall' = [op |-> "tick"]
    /\ UNCHANGED <<flag, bucketIdle, serviceVars, sdkVars, projectVars>>

Next ==
    \/ \E environment \in RequestEnvironments : toggleFlag(environment)
    \/ \E environment \in RequestEnvironments : addFlagRule(environment)
    \/ \E environment \in RequestEnvironments : deleteRule(environment)
    \/ \E environment \in RequestEnvironments, context \in Contexts :
          Evaluate(environment, context)
    \/ Tick

Spec == Init /\ [][Next]_vars

(***************************************************************************)
(* The bucketing loop on its own, one iteration per step, over every seed  *)
(* userId + key with a user id of at most MaxSeedLen code units.           *)
(***************************************************************************)
UserCodeUnits == {11623, 109, 87, 88}
UserIds == UNION { [1 .. n -> UserCodeUnits] : n \in 0 .. MaxSeedLen }

InitBucket ==
    /\ flag = createFlag(FlagKey, "BOOLEAN", <<>>)
    /\ now = 1
    /\ lastCall = [op |-> "createFlag", status |-> 201]
    /\ str \in { userId \o FlagKey : userId \in UserIds }
    /\ i = 0
    /\ hash = 0
    /\ normalizedHash = NotComputed
    /\ serviceIdle
    /\ sdkIdle
    /\ projectIdle

\* for (let i = 0; i < str.length; i++) { hash = ...; hash = hash & hash }
hashLoop ==
    /\ normalizedHash = NotComputed
    /\ i < Len(str)
    /\ hash' = hashStep(hash, str[i + 1])
    /\ i' = i + 1
    /\ UNCHANGED <<flag, now, lastCall, str, normalizedHash, serviceVars, sdkVars, projectVars>>

\* const normalizedHash = Math.abs(hash % 100)
normalizeHash ==
    /\ normalizedHash = NotComputed
    /\ i = Len(str)
    /\ normalizedHash' = normalize(hash)
    /\ UNCHANGED <<flag, now, lastCall, str, i, hash, serviceVars, sdkVars, projectVars>>

NextBucket == hashLoop \/ normalizeHash

SpecBucket == InitBucket /\ [][NextBucket]_vars

(***************************************************************************)
(* The engine on the documents Flag.findOne hydrates from the collection.  *)
(* A read runs no validator, so a document evaluates as it is stored: with *)
(* any combination of value, variations and defaultVariation, and with     *)
(* rules whose value the ruleSchema validator would reject at a save.      *)
(***************************************************************************)
\* The settings of the production environment as stored, without rules.
StoredSettings ==
    { st \in [enabled : {JsTrue, JsFalse},
              rules : {<<>>},
              value : {Undefined, Null, JsTrue, JsFalse, "S"},
              variations : {<<>>, TwoVariations},
              defaultVariation : {Undefined, Null, "A", "B"}] :
        defaultVariationValid(st) }

storedFlag(type, settings) ==
    [key |-> FlagKey, type |-> type, environments |-> [production |-> settings]]

\* Stored rules whose value fails the validator of their type.
OutOfRangePercentageRules ==
    { [type |-> "PERCENTAGE", priority |-> 10, value |-> v] : v \in {150, 0 - 5} }
NoValueRules ==
    { [type |-> t, priority |-> 10] : t \in {"PERCENTAGE", "USER_SEGMENT", "SCHEDULED"} }
NoStartDateRules ==
    { [type |-> "SCHEDULED", priority |-> 10, value |-> [endDate |-> 2]] }
\* A stored rule of a type the engine does not know.
UnknownTypeRules ==
    { [type |-> "GEO", priority |-> 10, value |-> "us"] }

\* An enabled BOOLEAN flag holding the rule, alone or in front of or behind
\* a DEFAULT rule of lower priority.
withStoredRule(rule) ==
    \E d \in DefaultRules, shape \in 1 .. 3 :
        flag = storedFlag("BOOLEAN",
                   [enabled |-> JsTrue,
                    rules |-> CASE shape = 1 -> <<rule>>
                                [] shape = 2 -> <<rule, d>>
                                [] shape = 3 -> <<d, rule>>,
                    value |-> JsFalse,
                    variations |-> <<>>,
                    defaultVariation |-> Null])

InitStored ==
    /\ \/ \E type \in FlagTypes, st \in StoredSettings : flag = storedFlag(type, st)
       \/ \E rule \in OutOfRangePercentageRules : withStoredRule(rule)
       \/ \E rule \in NoValueRules : withStoredRule(rule)
       \/ \E rule \in NoStartDateRules : withStoredRule(rule)
       \/ \E rule \in UnknownTypeRules : withStoredRule(rule)
       \/ \E rule \in PercentageRules : withStoredRule(rule)
    /\ now = 1
    /\ lastCall = [op |-> "findOne"]
    /\ str = <<>>
    /\ i = 0
    /\ hash = 0
    /\ normalizedHash = NotComputed
    /\ serviceIdle
    /\ sdkIdle
    /\ projectIdle

NextStored ==
    \/ \E environment \in RequestEnvironments, context \in Contexts :
          Evaluate(environment, context)
    \/ Tick

SpecStored == InitStored /\ [][NextStored]_vars

(***************************************************************************)
(* The SDK endpoint POST /api/sdk/:environment/evaluate: verifyApiKey,     *)
(* sdk.controller evaluateFlag, evaluation.service evaluateFlag with its   *)
(* fire-and-forget recordEvaluation, and the error middleware.             *)
(***************************************************************************)
\* Environments added to the project (flag.service.js addEnvironment) after
\* the flag was created: the project has an API key for them, the flag has
\* no settings for them.
AddedEnvironments == {"staging"}
\* The environments a request may name; no API key belongs to "qa".
EndpointEnvironments == ProjectEnvironments \cup AddedEnvironments \cup {"qa"}

OtherKey == <<104>>

ServiceContexts ==
    { c \in Contexts : c.beta = Undefined }

\* An Error object: the service sets statusCode on the errors it makes;
\* the error evaluate throws has none.
Error(name) == [name |-> name]
ErrorWithStatus(name, statusCode) == [name |-> name, statusCode |-> statusCode]

\* err.statusCode = err.statusCode || 500; a Mongoose ValidationError and
\* a duplicate key error (code 11000) are answered 400;
\* res.status(err.statusCode)
errorMiddleware(err) ==
    [status |-> IF err.name \in {"ValidationError", "E11000"} THEN 400
                ELSE IF "statusCode" \in DOMAIN err THEN err.statusCode ELSE 500,
     value |-> Undefined]

\* res.status(200).json({ status: 'success', data: { key, value: result } })
success(value) == [status |-> 200, value |-> value]

\* The stored rules of the flags the endpoint serves: one list per rule
\* type, each in front of a DEFAULT rule, and one list holding every type.
ServedRules(shape) ==
    LET percentage == [type |-> "PERCENTAGE", priority |-> 10, value |-> 50]
        segment == [type |-> "USER_SEGMENT", priority |-> 10,
                    value |-> [plan |-> "pro", region |-> "us"]]
        scheduled == [type |-> "SCHEDULED", priority |-> 10,
                      value |-> [startDate |-> 2, endDate |-> 2]]
        default == [type |-> "DEFAULT", priority |-> 0, value |-> "A"]
    IN  CASE shape = 1 -> <<default, percentage>>
          [] shape = 2 -> <<default, segment>>
          [] shape = 3 -> <<default, scheduled>>
          [] shape = 4 -> <<[segment EXCEPT !.priority = 0], scheduled, default,
                            [percentage EXCEPT !.priority = 5]>>

ServedShapes == 1 .. 4

InitService ==
    /\ \E shape \in ServedShapes, enabled \in {JsTrue, JsFalse} :
          flag = storedFlag("BOOLEAN",
                     [enabled |-> enabled,
                      rules |-> ServedRules(shape),
                      value |-> JsFalse,
                      variations |-> <<>>,
                      defaultVariation |-> Null])
    /\ now = 1
    /\ lastCall = [op |-> "findOne"]
    /\ str = <<>>
    /\ i = 0
    /\ hash = 0
    /\ normalizedHash = NotComputed
    /\ serviceIdle
    /\ sdkIdle
    /\ projectIdle

\* A plausible slip: the counter of the flag is raised without waiting for
\* the record to be created.
NewRecordingCountedFirst == [stage |-> "update"]

\* A recordEvaluation promise: awaiting this.create(data), then awaiting
\* the findByIdAndUpdate of the flag's metrics.
NewRecording == [stage |-> "create"]

\* The call remembered in previous.
Remembered(environment, context, outcome) ==
    [op |-> "evaluate", flag |-> flag, environment |-> environment,
     context |-> context, now |-> now, outcome |-> outcome]

\* verifyApiKey, sdk.controller.evaluateFlag, evaluation.service.evaluateFlag
EvaluateFlag(environment, flagKey, context) ==
    /\ Len(recordings) + metrics.documents < MaxRecordings
    /\ IF environment \notin ProjectEnvironments \cup AddedEnvironments
       THEN /\ lastCall' = [op |-> "evaluateFlag", environment |-> environment,
                            flagKey |-> flagKey, context |-> context,
                            outcome |-> Throw("InvalidApiKey"),
                            response |-> errorMiddleware(ErrorWithStatus("InvalidApiKey", 401))]
            /\ UNCHANGED <<flag, recordings>>
       ELSE IF flagKey # flag.key
       THEN /\ lastCall' = [op |-> "evaluateFlag", environment |-> environment,
                            flagKey |-> flagKey, context |-> context,
                            outcome |-> Throw("FlagNotFound"),
                            response |-> errorMiddleware(ErrorWithStatus("FlagNotFound", 404))]
            /\ UNCHANGED <<flag, recordings>>
       ELSE LET outcome == evaluate(flag, environment, context, now)
            IN  /\ lastCall' = [op |-> "evaluateFlag", environment |-> environment,
                                flagKey |-> flagKey, context |-> context,
                                outcome |-> outcome,
                                response |-> IF outcome.kind = "throw"
                                             THEN errorMiddleware(Error(outcome.error))
                                             ELSE success(outcome.value)]
                /\ flag' = thisAfterEvaluate(flag, environment)
                /\ recordings' = IF outcome.kind = "throw" THEN recordings
                                 ELSE Append(recordings, NewRecording)
    /\ UNCHANGED <<now, metrics, previous, projectFlags, bucketIdle, sdkVars, projectVars>>

\* The evaluation just made is kept in previous, for a later evaluation to
\* be compared with it.
Remember ==
    /\ previous.op = "none"
    /\ lastCall.op = "evaluateFlag"
    /\ lastCall.flagKey = flag.key
    /\ lastCall.environment \in ProjectEnvironments \cup AddedEnvironments
    /\ previous' = Remembered(lastCall.environment, lastCall.context, lastCall.outcome)
    /\ UNCHANGED <<flag, now, lastCall, recordings, metrics, projectFlags,
                   bucketIdle, sdkVars, projectVars>>

withoutRecording(k) ==
    SubSeq(recordings, 1, k - 1) \o SubSeq(recordings, k + 1, Len(recordings))

\* recordEvaluation: await this.create(data) resolves
recordCreate(k) ==
    /\ recordings[k].stage = "create"
    /\ recordings' = [recordings EXCEPT ![k].stage = "update"]
    /\ metrics' = [metrics EXCEPT !.documents = @ + 1]
    /\ UNCHANGED <<flag, now, lastCall, previous, projectFlags, bucketIdle, sdkVars, projectVars>>

\* recordEvaluation: the findByIdAndUpdate of metrics resolves, and with it
\* the promise
recordUpdate(k) ==
    /\ recordings[k].stage = "update"
    /\ recordings' = withoutRecording(k)
    /\ metrics' = [metrics EXCEPT !.evaluations = @ + 1]
    /\ UNCHANGED <<flag, now, lastCall, previous, projectFlags, bucketIdle, sdkVars, projectVars>>

\* A plausible slip: the rejection reaches the caller as an error response.
propagateRecordingError(call) ==
    IF "response" \in DOMAIN call
    THEN [call EXCEPT !.response = errorMiddleware(Error("RecordingFailed"))]
    ELSE call

\* .catch(err => { console.error('Failed to record evaluation:', err) }):
\* the rejection is logged, the call that dispatched the recording is not
\* touched
catchRecordingError(call) == call

\* Either await of recordEvaluation rejects.
recordFail(k) ==
    /\ recordings' = withoutRecording(k)
    /\ lastCall' = catchRecordingError(lastCall)
    /\ metrics' = [metrics EXCEPT !.rejected = TRUE]
    /\ UNCHANGED <<flag, now, previous, projectFlags, bucketIdle, sdkVars, projectVars>>

\* The requests: the flag in every environment, an unknown key in one.
Requests ==
    { [environment |-> e, flagKey |-> FlagKey] : e \in EndpointEnvironments }
        \cup { [environment |-> e, flagKey |-> OtherKey] : e \in ProjectEnvironments }

NextService ==
    \/ \E request \in Requests, context \in ServiceContexts :
          EvaluateFlag(request.environment, request.flagKey, context)
    \/ \E k \in 1 .. Len(recordings) : recordCreate(k)
    \/ \E k \in 1 .. Len(recordings) : recordUpdate(k)
    \/ \E k \in 1 .. Len(recordings) : recordFail(k)
    \/ \E environment \in ProjectEnvironments : toggleFlag(environment)
    \/ Remember
    \/ Tick

SpecService == InitService /\ [][NextService]_vars

(***************************************************************************)
(* The bulk endpoint GET /api/sdk/:environment/flags: evaluation.service   *)
(* evaluateAllFlags over the flags of the project.                         *)
(***************************************************************************)
\* The flags of the project besides flag: the k-th has the key "h", "i", ...
keyOf(k) == <<103 + k>>

\* A flag created before (staged = FALSE) or after (staged = TRUE) the
\* project added its second environment; an enabled one returns the value
\* of its DEFAULT rule, a disabled one its default value.
FlagShapes == [staged : BOOLEAN, enabled : {JsTrue, JsFalse}]

projectFlag(key, shape) ==
    LET settings == [enabled |-> shape.enabled,
                     rules |-> <<[type |-> "DEFAULT", priority |-> 0, value |-> "A"]>>,
                     value |-> JsFalse,
                     variations |-> <<>>,
                     defaultVariation |-> Null]
        environments == IF shape.staged
                        THEN ProjectEnvironments \cup AddedEnvironments
                        ELSE ProjectEnvironments
    IN  [key |-> key, type |-> "BOOLEAN",
         environments |-> [env \in environments |-> settings]]

\* Flag.find({ project: projectId })
findFlags == <<flag>> \o projectFlags

\* results[flag.key] = result
assign(results, key, value) ==
    [x \in DOMAIN results \cup {key} |-> IF x = key THEN value ELSE results[x]]

RECURSIVE evaluateAllStopping(_, _, _, _, _, _)
\* A plausible slip: the first flag that fails ends the loop.
evaluateAllStopping(flags, k, environment, context, clock, results) ==
    IF k > Len(flags) THEN results
    ELSE LET outcome == evaluate(flags[k], environment, context, clock)
         IN  IF outcome.kind = "throw" THEN results
             ELSE evaluateAllStopping(flags, k + 1, environment, context, clock,
                                      assign(results, flags[k].key, outcome.value))

RECURSIVE evaluateAllFrom(_, _, _, _, _, _)
\* for (const flag of flags) { try { results[flag.key] = flag.evaluate(...) }
\* catch (error) { console.error(...) } }
evaluateAllFrom(flags, k, environment, context, clock, results) ==
    IF k > Len(flags) THEN results
    ELSE LET outcome == evaluate(flags[k], environment, context, clock)
         IN  evaluateAllFrom(flags, k + 1, environment, context, clock,
                             IF outcome.kind = "throw" THEN results
                             ELSE assign(results, flags[k].key, outcome.value))

evaluateAllFlags(flags, environment, context, clock) ==
    evaluateAllFrom(flags, 1, environment, context, clock, <<>>)

\* n recordEvaluation promises dispatched one after the other
RECURSIVE dispatched(_, _)
dispatched(pending, n) ==
    IF n = 0 THEN pending ELSE dispatched(Append(pending, NewRecording), n - 1)

InitAll ==
    /\ flag = storedFlag("BOOLEAN",
                  [enabled |-> JsTrue,
                   rules |-> ServedRules(1),
                   value |-> JsFalse,
                   variations |-> <<>>,
                   defaultVariation |-> Null])
    /\ \E n \in 0 .. MaxFlags : \E shapes \in [1 .. n -> FlagShapes] :
          projectFlags = [k \in 1 .. n |-> projectFlag(keyOf(k), shapes[k])]
    /\ now = 1
    /\ lastCall = [op |-> "find"]
    /\ str = <<>>
    /\ i = 0
    /\ hash = 0
    /\ normalizedHash = NotComputed
    /\ recordings = <<>>
    /\ metrics = [evaluations |-> 0, documents |-> 0, rejected |-> FALSE]
    /\ previous = NoCall
    /\ sdkIdle
    /\ projectIdle

\* getClientFlags builds the context from the userId of the query string.
BulkContexts == { c \in Contexts : c.plan = Undefined /\ c.beta = Undefined }

\* sdk.controller.getClientFlags, evaluation.service.evaluateAllFlags
EvaluateAllFlags(environment, context) ==
    \E results \in {evaluateAllFlags(findFlags, environment, context, now)} :
        /\ Len(recordings) + metrics.documents + Cardinality(DOMAIN results)
              <= MaxFlags + 1
        /\ lastCall' = [op |-> "evaluateAllFlags", environment |-> environment,
                        context |-> context, results |-> results,
                        response |-> success(results)]
        /\ recordings' = dispatched(recordings, Cardinality(DOMAIN results))
        /\ UNCHANGED <<flag, now, metrics, previous, projectFlags, bucketIdle, sdkVars, projectVars>>

NextAll ==
    \/ \E environment \in ProjectEnvironments \cup AddedEnvironments,
          context \in BulkContexts : EvaluateAllFlags(environment, context)
    \/ \E environment \in ProjectEnvironments, context \in BulkContexts :
          EvaluateFlag(environment, FlagKey, context)
    \/ \E k \in 1 .. Len(recordings) : recordCreate(k)
    \/ \E k \in 1 .. Len(recordings) : recordUpdate(k)
    \/ \E k \in 1 .. Len(recordings) : recordFail(k)
    \/ Tick

SpecAll == InitAll /\ [][NextAll]_vars

(***************************************************************************)
(* The JavaScript SDK (sdk/javascript/src/index.ts): FlagManager.getValue  *)
(* called by concurrent callers.  A call runs from its start to its first  *)
(* await in one step (the offline check, the cache read, the fetch), and   *)
(* from the arrival of the response to its return in another (the cache    *)
(* write); nothing of the FlagManager is read or written between.          *)
(***************************************************************************)
\* options.cacheTtl, in clock readings
CacheTtl == 2

Callers == 1 .. MaxCallers

\* The calls made: getValue(flagKey, context, defaultValue) for the flag "g"
\* in two contexts, once with a default supplied, and for the flag "h".
EmptyContext == [userId |-> NoUser, plan |-> Undefined, region |-> Undefined,
                 beta |-> Undefined]
ProContext == [userId |-> User49, plan |-> "pro", region |-> "us", beta |-> Undefined]
GetValueCalls ==
    { [flagKey |-> FlagKey, context |-> EmptyContext, defaultValue |-> Undefined],
      [flagKey |-> FlagKey, context |-> EmptyContext, defaultValue |-> "fallback"],
      [flagKey |-> FlagKey, context |-> ProContext, defaultValue |-> Undefined],
      [flagKey |-> OtherKey, context |-> EmptyContext, defaultValue |-> Undefined] }

\* The values the server may evaluate a flag to for a context: "g" changes
\* on the server for the empty context.
ServerValues(flagKey, context) ==
    IF flagKey # FlagKey THEN {"on"}
    ELSE IF context = EmptyContext THEN {"on", "off"} ELSE {"off"}

bootstrapName(flagKey) == IF flagKey = FlagKey THEN "g" ELSE "h"

\* constructor(options)
FlagManager(options) ==
    [defaultFlagValue |-> IF options.defaultFlagValue # Undefined
                          THEN options.defaultFlagValue ELSE JsFalse,
     enableCache |-> IF options.enableCache # Undefined
                     THEN options.enableCache ELSE JsTrue,
     cacheTtl |-> CacheTtl,
     bootstrap |-> options.bootstrap,
     offline |-> Or(options.offline, JsFalse),
     cache |-> <<>>]

\* new FlagManager(options): online with the cache on, with and without a
\* configured default; online with the cache off; offline with a bootstrap
\* value for "g".
Options ==
    { [defaultFlagValue |-> d, enableCache |-> Undefined, bootstrap |-> <<>>,
       offline |-> Undefined] : d \in {Undefined, "configured"} }
        \cup { [defaultFlagValue |-> Undefined, enableCache |-> JsFalse,
                bootstrap |-> <<>>, offline |-> Undefined],
               [defaultFlagValue |-> Undefined, enableCache |-> Undefined,
                bootstrap |-> [g |-> "boot"], offline |-> JsTrue] }

\* JSON.stringify(context): the keys whose value is undefined are left out
stringify(context) ==
    [k \in { k \in DOMAIN context : context[k] # Undefined } |-> context[k]]

\* A plausible slip: the context is left out of the cache key.
getCacheKeyWithoutContext(flagKey, context) == <<flagKey, <<>>>>

\* `${flagKey}:${JSON.stringify(context)}`
getCacheKey(flagKey, context) == <<flagKey, stringify(context)>>

\* A plausible slip: the configured default is returned whatever the
\* caller supplied.
fallbackIgnoringCaller(defaultValue) == manager.defaultFlagValue

\* return defaultValue !== undefined ? defaultValue : this.defaultFlagValue
fallback(defaultValue) ==
    IF defaultValue # Undefined THEN defaultValue ELSE manager.defaultFlagValue

Idle == [pc |-> "idle"]

\* A call waiting for the response to its evaluation request.
Awaiting(call) ==
    [pc |-> "awaiting", flagKey |-> call.flagKey, context |-> call.context,
     defaultValue |-> call.defaultValue]

\* The promise of a call resolves with a value; how tells the return
\* statement, age the age of the cache entry read (0 when none was).
Resolved(call, value, how, age) ==
    [op |-> "getValue", flagKey |-> call.flagKey, context |-> call.context,
     defaultValue |-> call.defaultValue, value |-> value, how |-> how, age |-> age]

InitSdk ==
    /\ flag = createFlag(FlagKey, "BOOLEAN", <<>>)
    /\ now = 1
    /\ lastCall = [op |-> "new FlagManager"]
    /\ str = <<>>
    /\ i = 0
    /\ hash = 0
    /\ normalizedHash = NotComputed
    /\ serviceIdle
    /\ projectIdle
    /\ \E options \in Options : manager = FlagManager(options)
    /\ calls = [c \in Callers |-> Idle]
    /\ served = {}

\* Date.now() - cachedValue.timestamp < this.cacheTtl
isFresh(entry) == now - entry.timestamp < manager.cacheTtl

\* getValue up to its first await: it returns from the bootstrap values,
\* the offline default or the cache, or issues the evaluation request
getValueStart(c, call) ==
    LET cacheKey == getCacheKey(call.flagKey, call.context)
    IN  /\ calls[c].pc = "idle"
        /\ IF manager.offline = JsTrue
           THEN /\ lastCall' =
                      IF bootstrapName(call.flagKey) \in DOMAIN manager.bootstrap
                      THEN Resolved(call, manager.bootstrap[bootstrapName(call.flagKey)],
                                    "bootstrap", 0)
                      ELSE Resolved(call, fallback(call.defaultValue), "offline", 0)
                /\ calls' = calls
           ELSE IF /\ manager.enableCache = JsTrue
                   /\ cacheKey \in DOMAIN manager.cache
                   /\ isFresh(manager.cache[cacheKey])
           THEN /\ lastCall' = Resolved(call, manager.cache[cacheKey].value, "cache",
                                        now - manager.cache[cacheKey].timestamp)
                /\ calls' = calls
           ELSE /\ lastCall' = [op |-> "fetch"]
                /\ calls' = [calls EXCEPT ![c] = Awaiting(call)]
        /\ UNCHANGED <<flag, now, manager, served, bucketIdle, serviceVars, projectVars>>

\* this.cache.set(cacheKey, { value: result.value, timestamp: Date.now() })
cacheSet(cacheKey, value) ==
    [x \in DOMAIN manager.cache \cup {cacheKey} |->
        IF x = cacheKey THEN [value |-> value, timestamp |-> now]
        ELSE manager.cache[x]]

\* The response is OK and carries the value the server evaluated the flag
\* to: the cache is updated and the value returned.
getValueOk(c, value) ==
    /\ calls[c].pc = "awaiting"
    /\ value \in ServerValues(calls[c].flagKey, calls[c].context)
    /\ served' = served \cup {[flagKey |-> calls[c].flagKey,
                               context |-> calls[c].context, value |-> value]}
    /\ manager' = IF manager.enableCache = JsTrue
                  THEN [manager EXCEPT !.cache =
                           cacheSet(getCacheKey(calls[c].flagKey, calls[c].context), value)]
                  ELSE manager
    /\ lastCall' = Resolved(calls[c], value, "server", 0)
    /\ calls' = [calls EXCEPT ![c] = Idle]
    /\ UNCHANGED <<flag, now, bucketIdle, serviceVars, projectVars>>

\* fetch rejects, the response is not OK, or it carries no data: the error
\* skips the cache.set of the try block and is caught by getValue, which
\* returns the fallback.
getValueFailed(c) ==
    /\ calls[c].pc = "awaiting"
    /\ lastCall' = Resolved(calls[c], fallback(calls[c].defaultValue), "catch", 0)
    /\ calls' = [calls EXCEPT ![c] = Idle]
    /\ UNCHANGED <<flag, now, manager, served, bucketIdle, serviceVars, projectVars>>

NextSdk ==
    \/ \E c \in Callers, call \in GetValueCalls : getValueStart(c, call)
    \/ \E c \in Callers, value \in {"on", "off"} : getValueOk(c, value)
    \/ \E c \in Callers : getValueFailed(c)
    \/ Tick

SpecSdk == InitSdk /\ [][NextSdk]_vars

(***************************************************************************)
(* The reference bucketing algorithm the properties are stated against:    *)
(* h = (h * 31 + codeUnit) mod 2^32 read as a signed 32-bit integer, then  *)
(* abs(h) mod 100.                                                         *)
(***************************************************************************)
ReferenceStep(h, code) ==
    LET w == WideAdd(WideMul(Wide(h), 31), Wide(code))
        unsignedHi == w.hi % 65536
    IN  IF unsignedHi >= 32768
        THEN (unsignedHi - 65536) * 65536 + w.lo
        ELSE unsignedHi * 65536 + w.lo

RECURSIVE ReferenceHash(_)
ReferenceHash(s) ==
    IF Len(s) = 0 THEN 0
    ELSE ReferenceStep(ReferenceHash(SubSeq(s, 1, Len(s) - 1)), s[Len(s)])

\* abs(h) mod 100; for h < 0, (-h) mod 100 = (100 - (h mod 100)) mod 100
ReferenceAbsMod100(h) ==
    IF h >= 0 THEN h % 100 ELSE (100 - (h % 100)) % 100

ReferenceBucket(s) == ReferenceAbsMod100(ReferenceHash(s))

MinInt32 == 0 - 2147483647 - 1

(***************************************************************************)
(* Properties.  An evaluation is read off lastCall: its inputs and its     *)
(* outcome, against the flag it evaluated and the clock it read (no step   *)
(* changes the flag or the clock without replacing lastCall).              *)
(***************************************************************************)
Evaluated == lastCall.op = "evaluate"

EvaluatedIn ==
    /\ Evaluated
    /\ lastCall.environment \in DOMAIN flag.environments

Settings == flag.environments[lastCall.environment]

EvaluatedEnabled ==
    /\ EvaluatedIn
    /\ Settings.enabled = JsTrue

Outcome == lastCall.outcome

RuleIndexes == 1 .. Len(Settings.rules)

\* what the rule matcher says of the k-th stored rule for the evaluation
RuleResult(k) ==
    evaluateRule(Settings.rules[k], lastCall.context, flag.key, now)

AllRulesOfType(type) ==
    /\ Len(Settings.rules) > 0
    /\ \A k \in RuleIndexes : Settings.rules[k].type = type

\* C1: for a flag disabled in the requested environment, evaluate returns
\* exactly what getDefaultValue returns for that environment, for every
\* context and whatever rules the environment holds.
C1_DisabledReturnsDefault ==
    (EvaluatedIn /\ Settings.enabled = JsFalse) =>
        /\ Outcome.kind = "return"
        /\ Outcome.value = getDefaultValue(flag, lastCall.environment)

\* A disabled environment holding an always-matching DEFAULT rule whose value
\* is not the default value was evaluated.
C1_Witness ==
    /\ EvaluatedIn
    /\ Settings.enabled = JsFalse
    /\ \E k \in RuleIndexes :
          /\ Settings.rules[k].type = "DEFAULT"
          /\ Settings.rules[k].value # getDefaultValue(flag, lastCall.environment)
    /\ Outcome.kind = "return"
    /\ Outcome.value = getDefaultValue(flag, lastCall.environment)

\* C2: in an enabled environment with a matching rule, evaluate returns the
\* value emitted by a matching rule such that no rule of strictly higher
\* priority matches, whatever the types of the rules.
C2_HighestPriorityMatchWins ==
    (EvaluatedEnabled /\ \E k \in RuleIndexes : RuleResult(k).matches) =>
        /\ Outcome.kind = "return"
        /\ Outcome.exit = "rule"
        /\ \E k \in RuleIndexes :
              /\ RuleResult(k).matches
              /\ Outcome.value = RuleResult(k).value
              /\ \A j \in RuleIndexes :
                    Settings.rules[j].priority > Settings.rules[k].priority
                        => ~ RuleResult(j).matches

\* A DEFAULT rule of priority 0 stored in front of a matching USER_SEGMENT
\* rule of priority 10: the segment rule's value true is returned.
C2_Witness ==
    /\ EvaluatedEnabled
    /\ Len(Settings.rules) = 2
    /\ Settings.rules[1].type = "DEFAULT"
    /\ Settings.rules[1].priority = 0
    /\ Settings.rules[2].type = "USER_SEGMENT"
    /\ Settings.rules[2].priority = 10
    /\ RuleResult(2).matches
    /\ Outcome.kind = "return"
    /\ Outcome.value = JsTrue

\* C3: among the matching rules of the highest matching priority, evaluate
\* returns the value of the one stored first in the rules array.
C3_TiesKeepStoredOrder ==
    EvaluatedEnabled =>
        \A k \in RuleIndexes :
            ( /\ RuleResult(k).matches
              /\ \A j \in RuleIndexes :
                    RuleResult(j).matches =>
                        \/ Settings.rules[j].priority < Settings.rules[k].priority
                        \/ /\ Settings.rules[j].priority = Settings.rules[k].priority
                           /\ j >= k )
            => /\ Outcome.kind = "return"
               /\ Outcome.value = RuleResult(k).value

\* Two DEFAULT rules of equal priority and different values: the value of
\* the one stored first is returned.
C3_Witness ==
    /\ EvaluatedEnabled
    /\ Len(Settings.rules) = 2
    /\ Settings.rules[1].type = "DEFAULT"
    /\ Settings.rules[2].type = "DEFAULT"
    /\ Settings.rules[1].priority = Settings.rules[2].priority
    /\ Settings.rules[1].value # Settings.rules[2].value
    /\ Outcome.kind = "return"
    /\ Outcome.value = Settings.rules[1].value

\* C4: in an enabled environment, evaluate returns the getDefaultValue result
\* when the rules list is empty and when no rule matches the context; and no
\* returning path of evaluate returns undefined.
C4_FallsBackToDefault ==
    /\ (EvaluatedEnabled /\ \A k \in RuleIndexes : ~ RuleResult(k).matches) =>
          /\ Outcome.kind = "return"
          /\ Outcome.value = getDefaultValue(flag, lastCall.environment)
    /\ (Evaluated /\ Outcome.kind = "return") => Outcome.value # Undefined

\* An enabled environment with rules none of which matches was evaluated.
C4_Witness ==
    /\ EvaluatedEnabled
    /\ Len(Settings.rules) > 0
    /\ \A k \in RuleIndexes : ~ RuleResult(k).matches
    /\ Outcome.kind = "return"
    /\ Outcome.exit = "noMatch"
    /\ Outcome.value = getDefaultValue(flag, lastCall.environment)

\* C5: evaluate fails with the environment-not-found error, returning no
\* value, whenever the requested environment is no key of the flag's
\* environments map, for every context.
C5_UnknownEnvironmentThrows ==
    (Evaluated /\ lastCall.environment \notin DOMAIN flag.environments) =>
        /\ Outcome.kind = "throw"
        /\ Outcome.error = "EnvironmentNotFound"

\* An evaluation in an environment the flag does not have has thrown.
C5_Witness ==
    /\ Evaluated
    /\ lastCall.environment \notin DOMAIN flag.environments
    /\ Outcome.kind = "throw"

\* C6: a PERCENTAGE rule matches a context iff
\* bucket((context.userId or "") + flag key) is strictly less than the rule's
\* value, and a matched PERCENTAGE rule emits true: when every rule of the
\* enabled environment is a PERCENTAGE rule, evaluate returns true from a rule
\* iff the bucket is below the value of one of them, and otherwise falls
\* through to the default value.
C6_PercentageBelowValue ==
    (EvaluatedEnabled /\ AllRulesOfType("PERCENTAGE")) =>
        LET b == ReferenceBucket(lastCall.context.userId \o flag.key)
        IN  IF \E k \in RuleIndexes : b < Settings.rules[k].value
            THEN Outcome = Return(JsTrue, "rule")
            ELSE Outcome = Return(getDefaultValue(flag, lastCall.environment), "noMatch")

\* A context of bucket 49 was evaluated against a PERCENTAGE rule of value 50
\* and matched.
C6_Witness ==
    /\ EvaluatedEnabled
    /\ AllRulesOfType("PERCENTAGE")
    /\ ReferenceBucket(lastCall.context.userId \o flag.key) = 49
    /\ \A k \in RuleIndexes : Settings.rules[k].value = 50
    /\ Outcome = Return(JsTrue, "rule")

\* C7: for every seed string, the bucket the PERCENTAGE branch computes
\* equals abs(h) mod 100 of the reference hash h, and is an integer in
\* 0..99; the running hash equals the reference hash of the prefix read.
C7_BucketIsReference ==
    /\ hash = ReferenceHash(SubSeq(str, 1, i))
    /\ normalizedHash # NotComputed =>
          /\ normalizedHash = ReferenceBucket(str)
          /\ normalizedHash \in 0 .. 99

\* The bucket of a seed whose hash has wrapped to -2^31 was computed.
C7_Witness ==
    /\ normalizedHash # NotComputed
    /\ hash = MinInt32
    /\ normalizedHash = 48

\* C8 (as claimed): a USER_SEGMENT rule matches iff every key of rule.value
\* is present in the context with a strictly equal value, for every attribute
\* value including false, 0 and the empty string: when every rule of the
\* enabled environment is a USER_SEGMENT rule, evaluate returns true from a
\* rule iff one of them has all its keys strictly equal in the context.
C8_SegmentStrictEquality ==
    (EvaluatedEnabled /\ AllRulesOfType("USER_SEGMENT")) =>
        IF \E k \in RuleIndexes :
              \A key \in DOMAIN Settings.rules[k].value :
                  /\ lastCall.context[key] # Undefined
                  /\ lastCall.context[key] = Settings.rules[k].value[key]
        THEN Outcome = Return(JsTrue, "rule")
        ELSE Outcome = Return(getDefaultValue(flag, lastCall.environment), "noMatch")

\* WindowOpen(k, t): t is inside the window of the k-th rule, bounds included
WindowOpen(k, t) ==
    /\ t >= Settings.rules[k].value.startDate
    /\ "endDate" \in DOMAIN Settings.rules[k].value
          => t <= Settings.rules[k].value.endDate

\* C9: a SCHEDULED rule matches iff now >= startDate and (endDate is absent
\* or now <= endDate), both bounds inclusive, and emits true; a SCHEDULED
\* rule that does not match (now before startDate or past endDate) lets the
\* evaluation fall through to a DEFAULT rule of lower priority, or to the
\* default value when there is no other rule.
C9_ScheduledWindow ==
    /\ (EvaluatedEnabled /\ AllRulesOfType("SCHEDULED")) =>
          IF \E k \in RuleIndexes : WindowOpen(k, now)
          THEN Outcome = Return(JsTrue, "rule")
          ELSE Outcome = Return(getDefaultValue(flag, lastCall.environment), "noMatch")
    /\ EvaluatedEnabled =>
          \A k \in RuleIndexes, d \in RuleIndexes :
              ( /\ Len(Settings.rules) = 2
                /\ Settings.rules[k].type = "SCHEDULED"
                /\ Settings.rules[d].type = "DEFAULT"
                /\ Settings.rules[d].priority < Settings.rules[k].priority )
              => Outcome = Return(IF WindowOpen(k, now)
                                  THEN JsTrue ELSE Settings.rules[d].value, "rule")

\* A SCHEDULED rule with an endDate was evaluated after its endDate, and the
\* evaluation fell through to the DEFAULT rule of lower priority.
C9_Witness ==
    /\ EvaluatedEnabled
    /\ Len(Settings.rules) = 2
    /\ \E k \in RuleIndexes, d \in RuleIndexes :
          /\ Settings.rules[k].type = "SCHEDULED"
          /\ "endDate" \in DOMAIN Settings.rules[k].value
          /\ now > Settings.rules[k].value.endDate
          /\ Settings.rules[d].type = "DEFAULT"
          /\ Settings.rules[d].priority < Settings.rules[k].priority
          /\ Outcome = Return(Settings.rules[d].value, "rule")

DefaultRuleIndexes == { k \in RuleIndexes : Settings.rules[k].type = "DEFAULT" }

\* C10: a DEFAULT rule matches every context and emits its own rule.value:
\* an enabled environment holding a DEFAULT rule always returns from a rule,
\* never from the default value resolver; the value returned is true (from a
\* rule of another type) or the value of one of the DEFAULT rules, and it is
\* the value of the first DEFAULT rule of the highest priority when no rule
\* of another type is stored.
C10_DefaultRuleAlwaysMatches ==
    (EvaluatedEnabled /\ DefaultRuleIndexes # {}) =>
        /\ Outcome.kind = "return"
        /\ Outcome.exit = "rule"
        /\ \/ /\ Outcome.value = JsTrue
              /\ DefaultRuleIndexes # RuleIndexes
           \/ \E k \in DefaultRuleIndexes : Outcome.value = Settings.rules[k].value
        /\ DefaultRuleIndexes = RuleIndexes =>
              \E k \in RuleIndexes :
                  /\ Outcome.value = Settings.rules[k].value
                  /\ \A j \in RuleIndexes :
                        \/ Settings.rules[j].priority < Settings.rules[k].priority
                        \/ /\ Settings.rules[j].priority = Settings.rules[k].priority
                           /\ j >= k

\* An enabled environment whose only rule is a DEFAULT rule returned that
\* rule's value, which is not the default value of the environment.
C10_Witness ==
    /\ EvaluatedEnabled
    /\ Len(Settings.rules) = 1
    /\ Settings.rules[1].type = "DEFAULT"
    /\ Outcome = Return(Settings.rules[1].value, "rule")
    /\ Outcome.value # getDefaultValue(flag, lastCall.environment)

\* Malformed(rule): the value of the rule fails the shape check of its type:
\* a PERCENTAGE value that is no number in [0, 100], a USER_SEGMENT value
\* that is null or no object, a SCHEDULED value that is null or lacks
\* startDate.
Malformed(rule) ==
    CASE rule.type = "PERCENTAGE" ->
            ~ hasValue(rule) \/ rule.value < 0 \/ rule.value > 100
      [] rule.type = "USER_SEGMENT" -> ~ hasValue(rule)
      [] rule.type = "SCHEDULED" ->
            ~ hasValue(rule) \/ "startDate" \notin DOMAIN rule.value
      [] OTHER -> FALSE

WellFormed(rule) == ~ Malformed(rule)

\* the flag of the evaluation without its malformed rules
WithoutMalformedRules ==
    [flag EXCEPT !.environments[lastCall.environment].rules =
                     SelectSeq(@, WellFormed)]

\* C11 (as claimed): a rule whose value fails its type-specific shape check
\* is treated by evaluate as 'no match': the evaluation never raises and
\* returns what it returns for the flag without its malformed rules (the
\* next rule's value, or the default value).
C11_MalformedRuleIsNoMatch ==
    (EvaluatedEnabled /\ \E k \in RuleIndexes : Malformed(Settings.rules[k])) =>
        /\ Outcome.kind = "return"
        /\ Outcome.value =
              evaluate(WithoutMalformedRules, lastCall.environment,
                       lastCall.context, now).value

\* the evaluation returned what the Default Value Resolver gave it
ReturnedDefault ==
    /\ EvaluatedIn
    /\ Outcome.kind = "return"
    /\ Outcome.exit # "rule"

\* C12: for a BOOLEAN flag the Default Value Resolver returns the
\* environment's value when it is defined and false otherwise, whatever
\* variations or defaultVariation the environment holds.
C12_BooleanDefault ==
    (ReturnedDefault /\ flag.type = "BOOLEAN") =>
        Outcome.value = IF Settings.value # Undefined THEN Settings.value ELSE JsFalse

\* A BOOLEAN flag holding variations and a defaultVariation but no value
\* resolved to false.
C12_Witness ==
    /\ ReturnedDefault
    /\ flag.type = "BOOLEAN"
    /\ Settings.value = Undefined
    /\ Settings.variations = TwoVariations
    /\ Settings.defaultVariation = "B"
    /\ Outcome.value = JsFalse

\* C13: for a non-BOOLEAN flag the Default Value Resolver returns, when
\* variations is non-empty, the value of the variation whose key is
\* defaultVariation, or the value of the first variation in declared order
\* when defaultVariation is unset; when there are no variations, the
\* environment's value if defined and null otherwise.
C13_MultivariateDefault ==
    (ReturnedDefault /\ flag.type # "BOOLEAN") =>
        IF Len(Settings.variations) > 0
        THEN IF Settings.defaultVariation \in {Undefined, Null}
             THEN Outcome.value = Settings.variations[1].value
             ELSE \E k \in 1 .. Len(Settings.variations) :
                     /\ Settings.variations[k].key = Settings.defaultVariation
                     /\ Outcome.value = Settings.variations[k].value
        ELSE Outcome.value = IF Settings.value # Undefined THEN Settings.value ELSE Null

\* Variations [A = 1, B = 2] with defaultVariation B and a value of the
\* environment besides: the value 2 of variation B is returned.
C13_Witness ==
    /\ ReturnedDefault
    /\ flag.type # "BOOLEAN"
    /\ Settings.variations = TwoVariations
    /\ Settings.defaultVariation = "B"
    /\ Settings.value = "S"
    /\ Outcome.value = "2"

\* Variations [A = 1, B = 2] and no defaultVariation: the first variation's
\* value 1 is returned.
C13_FirstVariationReached ==
    /\ ReturnedDefault
    /\ flag.type # "BOOLEAN"
    /\ Settings.variations = TwoVariations
    /\ Settings.defaultVariation \in {Undefined, Null}
    /\ Outcome.value = "1"

(***************************************************************************)
(* Properties of the SDK endpoint.  lastCall is the latest request with    *)
(* the outcome of flag.evaluate and the response sent; previous is an      *)
(* earlier evaluation with the flag, the clock and the outcome it had.     *)
(***************************************************************************)
\* the latest request reached flag.evaluate
EvaluatedByService ==
    /\ lastCall.op = "evaluateFlag"
    /\ lastCall.flagKey = flag.key
    /\ lastCall.environment \in ProjectEnvironments \cup AddedEnvironments

\* the latest request repeats the remembered evaluation: the same flag
\* definition, environment and context
RepeatsPrevious ==
    /\ EvaluatedByService
    /\ previous.op = "evaluate"
    /\ previous.flag = flag
    /\ previous.environment = lastCall.environment
    /\ previous.context = lastCall.context

HoldsScheduledRule ==
    /\ lastCall.environment \in DOMAIN flag.environments
    /\ \E k \in 1 .. Len(flag.environments[lastCall.environment].rules) :
          flag.environments[lastCall.environment].rules[k].type = "SCHEDULED"

\* C14 (as claimed): two calls of evaluate with the identical flag
\* definition, environment and context return identical results for flags
\* holding rules of every type, SCHEDULED included, whatever happened
\* between the two calls.
C14_SameInputsSameResult ==
    RepeatsPrevious => lastCall.outcome = previous.outcome

\* C14 (amended): two calls of evaluate with the identical flag definition,
\* environment and context return identical results whatever evaluations,
\* recordings and toggles happened between them, when they read the same
\* clock or the environment holds no SCHEDULED rule.
C14_SameInputsSameClockSameResult ==
    (RepeatsPrevious /\ (previous.now = now \/ ~ HoldsScheduledRule)) =>
        lastCall.outcome = previous.outcome

\* A PERCENTAGE and DEFAULT flag was evaluated a second time for the same
\* context, at a later clock reading and after a recording of the first
\* evaluation had raised metrics.evaluations, with the same result.
C14_Witness ==
    /\ RepeatsPrevious
    /\ ~ HoldsScheduledRule
    /\ previous.now < now
    /\ metrics.evaluations > 0
    /\ flag.environments[lastCall.environment].enabled = JsTrue
    /\ lastCall.context.userId = User49
    /\ lastCall.outcome = Return(JsTrue, "rule")
    /\ lastCall.outcome = previous.outcome

\* SameRule(a, b): two stored rules are the same rule
SameRule(a, b) ==
    /\ a.type = b.type
    /\ a.priority = b.priority
    /\ a.value = b.value

\* SameSettings(a, b): the settings of an environment are the same, the
\* stored order of the rules included
SameSettings(a, b) ==
    /\ a.enabled = b.enabled
    /\ a.value = b.value
    /\ a.variations = b.variations
    /\ a.defaultVariation = b.defaultVariation
    /\ Len(a.rules) = Len(b.rules)
    /\ \A k \in 1 .. Len(a.rules) : SameRule(a.rules[k], b.rules[k])

\* C15: evaluate leaves the flag definition unchanged: across every
\* evaluation the enabled state, value, variations, defaultVariation and
\* rules of every environment, the stored order of the rules included, are
\* the same after as before.
C15_EvaluateKeepsDefinition ==
    [][lastCall'.op = "evaluate" =>
          /\ flag'.key = flag.key
          /\ flag'.type = flag.type
          /\ DOMAIN flag'.environments = DOMAIN flag.environments
          /\ \A env \in DOMAIN flag.environments :
                SameSettings(flag'.environments[env], flag.environments[env])]_vars

\* An enabled environment storing a rule of priority 0 in front of a rule of
\* priority 10 was evaluated through the rule of priority 10, and the rules
\* are stored in the same order.
C15_Witness ==
    /\ EvaluatedEnabled
    /\ Len(Settings.rules) = 2
    /\ Settings.rules[1].priority = 0
    /\ Settings.rules[2].priority = 10
    /\ Settings.rules[2].type = "PERCENTAGE"
    /\ Outcome = Return(JsTrue, "rule")

(***************************************************************************)
(* Properties of the bulk endpoint.                                        *)
(***************************************************************************)
EvaluatedAll == lastCall.op = "evaluateAllFlags"

\* the positions in Flag.find's list of the flags that have the requested
\* environment
Having ==
    { k \in 1 .. Len(findFlags) :
        lastCall.environment \in DOMAIN findFlags[k].environments }

\* C16: evaluateAllFlags never fails because one flag fails to evaluate: the
\* result maps exactly the keys of the flags that have the requested
\* environment to the value evaluate returns for each of them, omits every
\* flag that lacks the environment, and the flags listed after a failing
\* flag are still evaluated.
C16_BulkIsolation ==
    EvaluatedAll =>
        /\ lastCall.response.status = 200
        /\ DOMAIN lastCall.results = { findFlags[k].key : k \in Having }
        /\ \A k \in Having :
              lastCall.results[findFlags[k].key] =
                  evaluate(findFlags[k], lastCall.environment,
                           lastCall.context, now).value

\* The first two flags of the list lack the requested environment and the
\* third has it: the result holds the third flag's key alone, with the
\* value of its DEFAULT rule.
C16_Witness ==
    /\ EvaluatedAll
    /\ Len(findFlags) = 3
    /\ Having = {3}
    /\ DOMAIN lastCall.results = {findFlags[3].key}
    /\ lastCall.results[findFlags[3].key] = "A"

\* C17: the value returned by evaluateFlag and evaluateAllFlags is the same
\* whether the recording of the evaluation succeeds, fails or never
\* completes: in every state, whatever has become of the recordings, the
\* response of the latest call is the success response carrying what the
\* evaluation returned; no recording failure turns it into an error.
C17_RecordingNeverAffectsResponse ==
    /\ (lastCall.op = "evaluateFlag" /\ lastCall.outcome.kind = "return") =>
          /\ lastCall.response.status = 200
          /\ lastCall.response.value = lastCall.outcome.value
    /\ EvaluatedAll =>
          /\ lastCall.response.status = 200
          /\ lastCall.response.value = lastCall.results
          /\ lastCall.results =
                evaluateAllFlags(findFlags, lastCall.environment, lastCall.context, now)

\* evaluateFlag has answered with the value true, and its recording is gone
\* without having created a document: it failed.
C17_Witness ==
    /\ lastCall.op = "evaluateFlag"
    /\ lastCall.outcome.kind = "return"
    /\ lastCall.response.status = 200
    /\ lastCall.response.value = JsTrue
    /\ recordings = <<>>
    /\ metrics.documents = 0

\* evaluateFlag has answered while its recording has not yet created its
\* document: the response did not wait for the recording.
C17_AnsweredWhilePending ==
    /\ lastCall.op = "evaluateFlag"
    /\ lastCall.response.status = 200
    /\ Len(recordings) = 1
    /\ recordings[1].stage = "create"
    /\ metrics.documents = 0

\* C18 (as claimed): when the single-flag evaluation endpoint is asked for a
\* flag that exists but has no settings for the requested environment, the
\* error reaches the caller with status 404, as for a flag key that does
\* not exist.
C18_MissingEnvironmentIs404 ==
    ( /\ EvaluatedByService
      /\ lastCall.environment \notin DOMAIN flag.environments ) =>
        lastCall.response.status = 404

\* A waiting getValue call of caller c ends in the catch block: the
\* evaluation request failed.
FailedEvaluation(c) ==
    /\ calls[c].pc = "awaiting"
    /\ calls'[c].pc = "idle"
    /\ lastCall'.how = "catch"

\* C19: getValue never rejects: when the evaluation request fails, the call
\* resolves with the caller-supplied defaultValue when one was given and
\* otherwise with the configured defaultFlagValue, which is false when none
\* was configured, and the cache is left as it was.
C19_FailedEvaluationFallsBack ==
    [][\A c \in Callers :
          FailedEvaluation(c) =>
              /\ lastCall'.op = "getValue"
              /\ lastCall'.flagKey = calls[c].flagKey
              /\ IF calls[c].defaultValue # Undefined
                 THEN lastCall'.value = calls[c].defaultValue
                 ELSE /\ lastCall'.value = manager.defaultFlagValue
                      /\ manager.defaultFlagValue \in {"configured", JsFalse}
              /\ manager'.cache = manager.cache]_vars

\* A call that supplied the default "fallback" to a manager configured with
\* another default has failed and resolved with "fallback", while the cache
\* holds the entry an earlier successful call wrote and nothing else.
C19_Witness ==
    /\ lastCall.op = "getValue"
    /\ lastCall.how = "catch"
    /\ lastCall.defaultValue = "fallback"
    /\ lastCall.value = "fallback"
    /\ manager.defaultFlagValue = "configured"
    /\ \A x \in DOMAIN manager.cache : manager.cache[x].value = "on"
    /\ DOMAIN manager.cache # {}

\* A call without a default has failed on a manager without a configured
\* default: it resolved with false.
C19_FalseWhenNothingConfigured ==
    /\ lastCall.op = "getValue"
    /\ lastCall.how = "catch"
    /\ lastCall.defaultValue = Undefined
    /\ lastCall.value = JsFalse

\* The entry of the cache that belongs to (flagKey, serialized context).
EntryFor(flagKey, context) ==
    <<flagKey, [k \in { k \in DOMAIN context : context[k] # Undefined } |-> context[k]]>>

\* The server has evaluated flagKey for context to value.
ServerEvaluated(flagKey, context, value) ==
    [flagKey |-> flagKey, context |-> context, value |-> value] \in served

\* The latest getValue call resolved by the given return statement.
ResolvedBy(how) == lastCall.op = "getValue" /\ lastCall.how = how

\* C20: with the cache enabled, getValue answers from the cache only while
\* the entry of its (flagKey, serialized context) is younger than cacheTtl,
\* and then with a value the server evaluated that flag to for that
\* context; a call the server answers overwrites the entry with the value
\* and time of its own answer; and under every interleaving each entry
\* holds a value the server evaluated its own flag to for its own context,
\* never a fallback default.
C20_CacheHoldsServerValues ==
    /\ ResolvedBy("cache") =>
          /\ manager.enableCache = JsTrue
          /\ lastCall.age < CacheTtl
          /\ ServerEvaluated(lastCall.flagKey, lastCall.context, lastCall.value)
    /\ (ResolvedBy("server") /\ manager.enableCache = JsTrue) =>
          /\ EntryFor(lastCall.flagKey, lastCall.context) \in DOMAIN manager.cache
          /\ manager.cache[EntryFor(lastCall.flagKey, lastCall.context)] =
                [value |-> lastCall.value, timestamp |-> now]
    /\ \A x \in DOMAIN manager.cache :
          /\ manager.cache[x].value \notin {JsFalse, "configured", "fallback"}
          /\ \E s \in served :
                /\ x = EntryFor(s.flagKey, s.context)
                /\ manager.cache[x].value = s.value
    /\ manager.enableCache # JsTrue => DOMAIN manager.cache = {}

\* Two callers have both missed the entry of the same flag and context and
\* both wait for their own evaluation, while the entry holds the value an
\* earlier answer wrote, which has expired.
C20_Witness ==
    /\ \A c \in Callers :
          /\ calls[c].pc = "awaiting"
          /\ calls[c].flagKey = FlagKey
          /\ calls[c].context = EmptyContext
    /\ EntryFor(FlagKey, EmptyContext) \in DOMAIN manager.cache
    /\ now - manager.cache[EntryFor(FlagKey, EmptyContext)].timestamp >= CacheTtl

\* The server has answered the second of two concurrent calls with "off"
\* after answering the first with "on": the entry holds "off".
C20_SecondAnswerOverwrites ==
    /\ ResolvedBy("server")
    /\ lastCall.value = "off"
    /\ ServerEvaluated(FlagKey, EmptyContext, "on")
    /\ EntryFor(FlagKey, EmptyContext) \in DOMAIN manager.cache
    /\ manager.cache[EntryFor(FlagKey, EmptyContext)].value = "off"

\* A call has been answered from the cache with an entry one clock reading
\* old.
C20_AnsweredFromCache ==
    /\ ResolvedBy("cache")
    /\ lastCall.age = 1

(***************************************************************************)
(* flag.service.js: the variations of an environment and its default.      *)
(***************************************************************************)
VariationKeys == {"A", "B", "C"}

Variation(key, value) == [key |-> key, value |-> value]

\* The variation lists of request bodies: of up to MaxVariations
\* variations; nothing in the schema makes the keys of a list differ.
VariationLists ==
    UNION { [1 .. n -> { Variation(k, "1") : k \in VariationKeys }] :
                n \in 0 .. MaxVariations }

\* { ...a, ...b }
spread(a, b) ==
    [k \in DOMAIN a \cup DOMAIN b |-> IF k \in DOMAIN b THEN b[k] ELSE a[k]]

\* variations.findIndex(v => v.key === variationKey) !== -1
hasVariation(variations, variationKey) ==
    \E k \in 1 .. Len(variations) : variations[k].key = variationKey

\* variations.filter(v => v.key !== variationKey)
RECURSIVE filterOut(_, _)
filterOut(variations, variationKey) ==
    IF variations = <<>> THEN <<>>
    ELSE IF Head(variations).key # variationKey
    THEN <<Head(variations)>> \o filterOut(Tail(variations), variationKey)
    ELSE filterOut(Tail(variations), variationKey)

\* The outcome of a management operation on the flag: the document it
\* saved, or the error it threw, as the error middleware answers it.
Saved(f) == [status |-> 200, error |-> "none", flag |-> f]
Failed(err) == [status |-> errorMiddleware(err).status, error |-> err.name, flag |-> flag]

\* await flag.save(): the schema validators run on the document
save(f) == IF flagValid(f) THEN Saved(f) ELSE Failed(Error("ValidationError"))

\* The bodies createFlag is given for the variations of production.
VariationEnvData ==
    { [NoEnvData EXCEPT !.variations = vs, !.defaultVariation = d] :
        vs \in VariationLists, d \in {Undefined} \cup VariationKeys }

InitVariations ==
    /\ flag \in { f \in { createFlag(FlagKey, "STRING", [production |-> d]) :
                            d \in VariationEnvData } : flagValid(f) }
    /\ now = 1
    /\ lastCall = [op |-> "createFlag", status |-> 201]
    /\ str = <<>>
    /\ i = 0
    /\ hash = 0
    /\ normalizedHash = NotComputed
    /\ serviceIdle
    /\ sdkIdle
    /\ projectIdle

\* The call of a management operation as it is remembered: with the
\* document it found and the answer it got.
called(op, environment, variationKey, outcome) ==
    [op |-> op, environment |-> environment, variationKey |-> variationKey,
     before |-> flag, status |-> outcome.status, error |-> outcome.error]

\* flag.service.js updateEnvironmentSettings
updateEnvironmentSettingsOf(f, environment, settings) ==
    IF environment \notin DOMAIN f.environments THEN Failed(ErrorWithStatus("Environment not found", 404))
    ELSE save([f EXCEPT !.environments[environment] = spread(@, settings)])

\* The bodies of updateEnvironmentSettings.
SettingsBodies ==
    { [defaultVariation |-> d] : d \in {Null, "A", "B"} }
        \cup { [variations |-> vs] : vs \in {<<>>, <<Variation("A", "1")>>} }
        \cup { [variations |-> <<Variation("B", "1")>>, defaultVariation |-> "B"] }

updateEnvironmentSettings(environment, settings) ==
    LET outcome == updateEnvironmentSettingsOf(flag, environment, settings)
    IN  /\ flag' = outcome.flag
        /\ lastCall' = called("updateEnvironmentSettings", environment, "none", outcome)
        /\ UNCHANGED <<now, bucketIdle, serviceVars, sdkVars, projectVars>>

\* flag.service.js addVariation
addVariationOf(f, environment, variationData) ==
    IF environment \notin DOMAIN f.environments THEN Failed(ErrorWithStatus("Environment not found", 404))
    ELSE LET currentSettings == f.environments[environment]
             pushed == Append(currentSettings.variations, variationData)
         IN  IF hasVariation(currentSettings.variations, variationData.key)
             THEN Failed(ErrorWithStatus("Variation already exists", 400))
             ELSE save([f EXCEPT !.environments[environment] =
                          [currentSettings EXCEPT
                              !.variations = pushed,
                              !.defaultVariation =
                                  IF Len(pushed) = 1 /\ @ \in Falsy
                                  THEN variationData.key ELSE @]])

addVariation(environment, variationData) ==
    LET outcome == addVariationOf(flag, environment, variationData)
    IN  /\ environment \in DOMAIN flag.environments =>
               Len(flag.environments[environment].variations) < MaxVariations
        /\ flag' = outcome.flag
        /\ lastCall' = called("addVariation", environment, variationData.key, outcome)
        /\ UNCHANGED <<now, bucketIdle, serviceVars, sdkVars, projectVars>>

\* flag.service.js updateVariation: every variation of the key is looked
\* up by findIndex, which finds the first
updateVariationOf(f, environment, variationKey, updateData) ==
    IF environment \notin DOMAIN f.environments THEN Failed(ErrorWithStatus("Environment not found", 404))
    ELSE LET variations == f.environments[environment].variations
         IN  IF ~ hasVariation(variations, variationKey)
             THEN Failed(ErrorWithStatus("Variation not found", 404))
             ELSE LET variationIndex ==
                          CHOOSE k \in 1 .. Len(variations) :
                              /\ variations[k].key = variationKey
                              /\ \A j \in 1 .. k - 1 : variations[j].key # variationKey
                  IN  save([f EXCEPT !.environments[environment].variations[variationIndex] =
                                        spread(@, updateData)])

\* The bodies of updateVariation: the route checks the value and the
\* description and passes the whole body on, a key included.
UpdateBodies == {[value |-> "2"], [key |-> "A"], [key |-> "C"]}

updateVariation(environment, variationKey, updateData) ==
    LET outcome == updateVariationOf(flag, environment, variationKey, updateData)
    IN  /\ flag' = outcome.flag
        /\ lastCall' = called("updateVariation", environment, variationKey, outcome)
        /\ UNCHANGED <<now, bucketIdle, serviceVars, sdkVars, projectVars>>

\* variations.find(v => v.key !== variationKey), undefined when every
\* variation has the key
newDefault(variations, variationKey) ==
    LET others == filterOut(variations, variationKey)
    IN  IF others = <<>> THEN Undefined ELSE Head(others).key

\* flag.service.js deleteVariation
deleteVariationOf(f, environment, variationKey) ==
    IF environment \notin DOMAIN f.environments THEN Failed(ErrorWithStatus("Environment not found", 404))
    ELSE LET currentSettings == f.environments[environment]
             variations == currentSettings.variations
             isDefault == currentSettings.defaultVariation = variationKey
         IN  IF ~ hasVariation(variations, variationKey)
             THEN Failed(ErrorWithStatus("Variation not found", 404))
             ELSE IF isDefault /\ Len(variations) = 1
             THEN Failed(ErrorWithStatus("Cannot delete the only variation", 400))
             ELSE IF isDefault /\ newDefault(variations, variationKey) = Undefined
             THEN Failed(Error("TypeError"))   \* newDefault.key of undefined
             ELSE save([f EXCEPT !.environments[environment] =
                          [currentSettings EXCEPT
                              !.defaultVariation =
                                  IF isDefault THEN newDefault(variations, variationKey)
                                  ELSE @,
                              !.variations = filterOut(variations, variationKey)]])

deleteVariation(environment, variationKey) ==
    LET outcome == deleteVariationOf(flag, environment, variationKey)
    IN  /\ flag' = outcome.flag
        /\ lastCall' = called("deleteVariation", environment, variationKey, outcome)
        /\ UNCHANGED <<now, bucketIdle, serviceVars, sdkVars, projectVars>>

\* flag.service.js setDefaultVariation
setDefaultVariationOf(f, environment, variationKey) ==
    IF environment \notin DOMAIN f.environments THEN Failed(ErrorWithStatus("Environment not found", 404))
    ELSE IF ~ hasVariation(f.environments[environment].variations, variationKey)
    THEN Failed(ErrorWithStatus("Variation not found", 404))
    ELSE save([f EXCEPT !.environments[environment].defaultVariation = variationKey])

setDefaultVariation(environment, variationKey) ==
    LET outcome == setDefaultVariationOf(flag, environment, variationKey)
    IN  /\ flag' = outcome.flag
        /\ lastCall' = called("setDefaultVariation", environment, variationKey, outcome)
        /\ UNCHANGED <<now, bucketIdle, serviceVars, sdkVars, projectVars>>

NextVariations ==
    \/ \E environment \in RequestEnvironments, settings \in SettingsBodies :
            updateEnvironmentSettings(environment, settings)
    \/ \E environment \in RequestEnvironments, key \in VariationKeys :
            addVariation(environment, Variation(key, "1"))
    \/ \E environment \in RequestEnvironments, key \in VariationKeys,
            updateData \in UpdateBodies :
            updateVariation(environment, key, updateData)
    \/ \E environment \in RequestEnvironments, key \in VariationKeys :
            deleteVariation(environment, key)
    \/ \E environment \in RequestEnvironments, key \in VariationKeys :
            setDefaultVariation(environment, key)

SpecVariations == InitVariations /\ [][NextVariations]_vars

\* The variation keys of an environment's settings.
KeysOf(envSettings) ==
    { envSettings.variations[k].key : k \in 1 .. Len(envSettings.variations) }

\* C21: after any sequence of createFlag, updateEnvironmentSettings,
\* addVariation, updateVariation, deleteVariation and setDefaultVariation,
\* in every environment of the flag whose variations are non-empty and
\* whose defaultVariation is set, defaultVariation is the key of one of the
\* environment's variations.
C21_DefaultNamesAVariation ==
    \A env \in DOMAIN flag.environments :
        ( /\ flag.environments[env].variations # <<>>
          /\ flag.environments[env].defaultVariation \notin {Null, Undefined} ) =>
            flag.environments[env].defaultVariation \in KeysOf(flag.environments[env])

\* The default variation "A" has been deleted from two variations: the
\* default is now the remaining one.
C21_Witness ==
    /\ lastCall.op = "deleteVariation"
    /\ lastCall.status = 200
    /\ lastCall.before.environments.production.defaultVariation = "A"
    /\ lastCall.variationKey = "A"
    /\ flag.environments.production.variations # <<>>
    /\ flag.environments.production.defaultVariation = "B"

\* updateVariation was asked to give the default variation another key:
\* the save was refused and the document is as it was.
C21_RenameOfDefaultRefused ==
    /\ lastCall.op = "updateVariation"
    /\ lastCall.error = "ValidationError"
    /\ lastCall.before.environments.production.defaultVariation = lastCall.variationKey
    /\ flag = lastCall.before

\* deleteVariation was asked for the variation that is the default of an
\* environment that has it.
DeletedDefault ==
    /\ lastCall.op = "deleteVariation"
    /\ lastCall.environment \in DOMAIN lastCall.before.environments
    /\ hasVariation(lastCall.before.environments[lastCall.environment].variations,
                    lastCall.variationKey)
    /\ lastCall.before.environments[lastCall.environment].defaultVariation =
          lastCall.variationKey

\* C22 (as claimed): deleteVariation of the current default removes it and
\* makes the first remaining variation, in list order, the default when
\* the environment has other variations; when it is the only variation the
\* operation fails with 'Cannot delete the only variation' and the
\* variations and the default are as they were.
C22_DeleteDefaultVariation ==
    DeletedDefault =>
        LET before == lastCall.before.environments[lastCall.environment]
            after == flag.environments[lastCall.environment]
        IN  IF Len(before.variations) = 1
            THEN /\ lastCall.status = 400
                 /\ lastCall.error = "Cannot delete the only variation"
                 /\ after = before
            ELSE /\ lastCall.status = 200
                 /\ after.variations = filterOut(before.variations, lastCall.variationKey)
                 /\ after.variations # <<>>
                 /\ after.defaultVariation = after.variations[1].key

\* C22 for lists whose variation keys differ, as the data model has them:
\* there the operation does what the claim says.
C22_DeleteDefaultOfDistinctKeys ==
    ( /\ DeletedDefault
      /\ Cardinality(KeysOf(lastCall.before.environments[lastCall.environment])) =
            Len(lastCall.before.environments[lastCall.environment].variations) ) =>
        C22_DeleteDefaultVariation

(***************************************************************************)
(* project.model.js and project.service.js: the project, its environments, *)
(* its API keys and its members; createFlag and deleteProject await by     *)
(* await.                                                                  *)
(***************************************************************************)
Clients == 1 .. MaxClients

\* environments: default ['development', 'staging', 'production']
DefaultEnvironments == <<"development", "staging", "production">>

\* crypto.randomBytes(32).toString('hex')
ApiKeys == {"k1", "k2"}

Range(seq) == { seq[k] : k \in 1 .. Len(seq) }

\* members.some(member => member.user.toString() === userId)
isMember(project, userId) ==
    \E k \in 1 .. Len(project.members) : project.members[k].user = userId

\* projectSchema.pre('save')
preSave(project) ==
    IF isMember(project, project.owner) THEN project
    ELSE [project EXCEPT !.members = Append(@, [user |-> project.owner, role |-> "admin"])]

\* project.service.js createProject: Project.create applies the defaults of
\* the schema and runs the hook
createProject(id, userId, projectData) ==
    LET environments == IF "environments" \in DOMAIN projectData
                        THEN projectData.environments ELSE DefaultEnvironments
    IN  preSave([_id |-> id,
                 environments |-> environments,
                 apiKeys |-> [env \in Range(environments) |-> "k1"],
                 owner |-> userId,
                 members |-> <<>>])

\* Project.findById(projectId): the documents found, one or none
findById(projectId) == { p \in projects : p._id = projectId }

\* await project.save(): the document replaces the stored one
saveProject(project) ==
    { p \in projects : p._id # project._id } \cup {preSave(project)}

\* The users: u1 owns the project P, u2 and u3 are other users.
Users == {"u1", "u2", "u3"}

InitProject ==
    /\ flag = createFlag(FlagKey, "BOOLEAN", <<>>)
    /\ now = 1
    /\ lastCall = [op |-> "createProject", status |-> 201]
    /\ str = <<>>
    /\ i = 0
    /\ hash = 0
    /\ normalizedHash = NotComputed
    /\ serviceIdle
    /\ sdkIdle
    /\ \E projectData \in {<<>>, [environments |-> <<"production">>]} :
          projects = {createProject("P", "u1", projectData)}
    /\ storedFlags = {}
    /\ inFlight = [c \in Clients |-> [pc |-> "idle"]]

\* The answer to a project request: the status, and the Project collection
\* as the request found it.
answered(op, argument, status) ==
    [op |-> op, argument |-> argument, status |-> status, before |-> projects]

\* project.service.js addEnvironment and projectSchema.methods.addEnvironment
addEnvironment(projectId, environment) ==
    /\ \/ /\ findById(projectId) = {}
          /\ projects' = projects
          /\ lastCall' = answered("addEnvironment", environment, 404)
       \/ \E project \in findById(projectId) :
             IF environment \in Range(project.environments)
             THEN /\ projects' = projects
                  /\ lastCall' = answered("addEnvironment", environment, 500)
             ELSE \E apiKey \in ApiKeys :
                  /\ projects' = saveProject(
                        [project EXCEPT
                            !.environments = Append(@, environment),
                            !.apiKeys = [env \in DOMAIN @ \cup {environment} |->
                                            IF env = environment THEN apiKey ELSE @[env]]])
                  /\ lastCall' = answered("addEnvironment", environment, 201)
    /\ UNCHANGED <<flag, now, storedFlags, inFlight, bucketIdle, serviceVars, sdkVars>>

\* A plausible slip: the last environment may be removed.
mayRemoveAny(project) == TRUE

\* if (this.environments.length <= 1) throw
mayRemove(project) == Len(project.environments) > 1

\* project.service.js removeEnvironment and projectSchema.methods.removeEnvironment
removeEnvironment(projectId, environment) ==
    /\ \/ /\ findById(projectId) = {}
          /\ projects' = projects
          /\ lastCall' = answered("removeEnvironment", environment, 404)
       \/ \E project \in findById(projectId) :
             IF environment \notin Range(project.environments) \/ ~ mayRemove(project)
             THEN /\ projects' = projects
                  /\ lastCall' = answered("removeEnvironment", environment, 500)
             ELSE /\ projects' = saveProject(
                        [project EXCEPT
                            !.environments = SelectSeq(@, LAMBDA env : env # environment),
                            !.apiKeys = [env \in DOMAIN @ \ {environment} |-> @[env]]])
                  /\ lastCall' = answered("removeEnvironment", environment, 200)
    /\ UNCHANGED <<flag, now, storedFlags, inFlight, bucketIdle, serviceVars, sdkVars>>

\* project.service.js regenerateApiKey and projectSchema.methods.regenerateApiKey
regenerateApiKey(projectId, environment) ==
    /\ \/ /\ findById(projectId) = {}
          /\ projects' = projects
          /\ lastCall' = answered("regenerateApiKey", environment, 404)
       \/ \E project \in findById(projectId) :
             IF environment \notin Range(project.environments)
             THEN /\ projects' = projects
                  /\ lastCall' = answered("regenerateApiKey", environment, 500)
             ELSE \E newKey \in ApiKeys :
                  /\ projects' = saveProject(
                        [project EXCEPT
                            !.apiKeys = [env \in DOMAIN @ \cup {environment} |->
                                            IF env = environment THEN newKey ELSE @[env]]])
                  /\ lastCall' = answered("regenerateApiKey", environment, 200)
    /\ UNCHANGED <<flag, now, storedFlags, inFlight, bucketIdle, serviceVars, sdkVars>>

\* The flag keys of createFlag requests: "g" and "G".
UpperKey == <<71>>
CreatedKeys == {FlagKey, UpperKey}

\* An answer to a request of the client c, which is idle again; at tells
\* the await the request ended at.
finish(c, op, key, at, status) ==
    /\ inFlight' = [inFlight EXCEPT ![c] = [pc |-> "idle"]]
    /\ lastCall' = [op |-> op, client |-> c, key |-> key, at |-> at, status |-> status]

\* createFlag up to its second await: Flag.findOne({ project, key }) has
\* answered
createFlagFindOne(c, projectId, key) ==
    /\ inFlight[c].pc = "idle"
    /\ Cardinality(storedFlags) < MaxFlags
    /\ IF \E f \in storedFlags : f.project = projectId /\ f.key = key
       THEN finish(c, "createFlag", key, "Flag.findOne", 400)
       ELSE /\ inFlight' = [inFlight EXCEPT ![c] =
                   [pc |-> "createFlag.findById", projectId |-> projectId, key |-> key]]
            /\ lastCall' = [op |-> "Flag.findOne", client |-> c]
    /\ UNCHANGED <<flag, now, projects, storedFlags, bucketIdle, serviceVars, sdkVars>>

\* createFlag up to its third await: Project.findById has answered
createFlagFindById(c) ==
    /\ inFlight[c].pc = "createFlag.findById"
    /\ \/ /\ findById(inFlight[c].projectId) = {}
          /\ finish(c, "createFlag", inFlight[c].key, "Project.findById", 404)
       \/ \E project \in findById(inFlight[c].projectId) :
             /\ inFlight' = [inFlight EXCEPT ![c] =
                    [pc |-> "createFlag.create", projectId |-> inFlight[c].projectId,
                     key |-> inFlight[c].key, environments |-> project.environments]]
             /\ lastCall' = [op |-> "Project.findById", client |-> c]
    /\ UNCHANGED <<flag, now, projects, storedFlags, bucketIdle, serviceVars, sdkVars>>

\* A plausible slip: the collection has no unique index on (project, key).
uniqueIndexMissing(projectId, key) == TRUE

\* flagSchema.index({ project: 1, key: 1 }, { unique: true }): the insert
\* the index admits
uniqueIndexAdmits(projectId, key) ==
    ~ \E f \in storedFlags : f.project = projectId /\ f.key = key

\* createFlag from Flag.create on: the settings built for each environment
\* of the project it read, and the insert
createFlagCreate(c) ==
    /\ inFlight[c].pc = "createFlag.create"
    /\ IF uniqueIndexAdmits(inFlight[c].projectId, inFlight[c].key)
       THEN /\ storedFlags' = storedFlags \cup
                  { [_id |-> Cardinality(storedFlags) + 1,
                     project |-> inFlight[c].projectId,
                     key |-> inFlight[c].key,
                     type |-> "BOOLEAN",
                     environments |->
                        [env \in Range(inFlight[c].environments) |->
                            [enabled |-> JsFalse, rules |-> <<>>, value |-> JsFalse,
                             variations |-> <<>>, defaultVariation |-> Null]]] }
            /\ finish(c, "createFlag", inFlight[c].key, "Flag.create", 201)
       ELSE /\ storedFlags' = storedFlags
            /\ finish(c, "createFlag", inFlight[c].key, "Flag.create",
                      errorMiddleware(Error("E11000")).status)
    /\ UNCHANGED <<flag, now, projects, bucketIdle, serviceVars, sdkVars>>

\* deleteProject up to its second await: Project.findByIdAndDelete has
\* answered
deleteProjectFindByIdAndDelete(c, projectId) ==
    /\ inFlight[c].pc = "idle"
    /\ IF findById(projectId) = {}
       THEN /\ finish(c, "deleteProject", <<>>, "Project.findByIdAndDelete", 404)
            /\ projects' = projects
       ELSE /\ projects' = projects \ findById(projectId)
            /\ inFlight' = [inFlight EXCEPT ![c] =
                   [pc |-> "deleteProject.deleteMany", projectId |-> projectId]]
            /\ lastCall' = [op |-> "Project.findByIdAndDelete", client |-> c]
    /\ UNCHANGED <<flag, now, storedFlags, bucketIdle, serviceVars, sdkVars>>

\* Flag.deleteMany({ project: projectId })
deleteMany(projectId) == { f \in storedFlags : f.project # projectId }

\* deleteProject from Flag.deleteMany on
deleteProjectDeleteMany(c) ==
    /\ inFlight[c].pc = "deleteProject.deleteMany"
    /\ storedFlags' = deleteMany(inFlight[c].projectId)
    /\ inFlight' = [inFlight EXCEPT ![c] = [pc |-> "idle"]]
    /\ lastCall' = [op |-> "deleteProject", client |-> c, status |-> 200,
                    projectId |-> inFlight[c].projectId]
    /\ UNCHANGED <<flag, now, projects, bucketIdle, serviceVars, sdkVars>>

\* flag.evaluate(environment, context) on a stored flag, in an environment
\* its project declares
evaluateStored(f, environment) ==
    /\ \E project \in findById(f.project) : environment \in Range(project.environments)
    /\ lastCall' = [op |-> "evaluate", flagKey |-> f.key, environment |-> environment,
                    outcome |-> evaluate(f, environment, EmptyContext, now)]
    /\ UNCHANGED <<flag, now, projectVars, bucketIdle, serviceVars, sdkVars>>

\* The project's environments change while flags are created and evaluated.
NextEnvironments ==
    \/ \E environment \in Range(DefaultEnvironments) : addEnvironment("P", environment)
    \/ \E environment \in Range(DefaultEnvironments) : removeEnvironment("P", environment)
    \/ \E environment \in Range(DefaultEnvironments) : regenerateApiKey("P", environment)
    \/ createFlagFindOne(1, "P", FlagKey)
    \/ createFlagFindById(1)
    \/ createFlagCreate(1)
    \/ \E f \in storedFlags, environment \in Range(DefaultEnvironments) :
            evaluateStored(f, environment)

SpecEnvironments == InitProject /\ [][NextEnvironments]_vars

\* C23 (as claimed): after any sequence of createFlag, addEnvironment and
\* removeEnvironment, every flag of a project has settings for exactly the
\* environments the project declares, and evaluating a flag in a declared
\* environment returns: it never fails with environment-not-found.
C23_SettingsForDeclaredEnvironments ==
    /\ \A f \in storedFlags : \A project \in findById(f.project) :
          DOMAIN f.environments = Range(project.environments)
    /\ lastCall.op = "evaluate" => lastCall.outcome.kind = "return"

\* The environment-related requests to a project.
EnvironmentRequest ==
    lastCall.op \in {"addEnvironment", "removeEnvironment", "regenerateApiKey"}

C28_AddedAgain ==
    /\ lastCall.op = "addEnvironment"
    /\ lastCall.status = 201
    /\ \E project \in projects :
          /\ project.environments = <<"staging", "production", "development">>
          /\ project.apiKeys["development"] = "k2"

\* Clients create flags in the project and delete the project, each
\* request running await by await.
NextCascade ==
    \/ \E c \in Clients, key \in CreatedKeys : createFlagFindOne(c, "P", key)
    \/ \E c \in Clients : createFlagFindById(c)
    \/ \E c \in Clients : createFlagCreate(c)
    \/ \E c \in Clients : deleteProjectFindByIdAndDelete(c, "P")
    \/ \E c \in Clients : deleteProjectDeleteMany(c)

SpecCascade == InitProject /\ [][NextCascade]_vars

\* deleteProject(projectId) has completed: the project is gone and no
\* deleteProject of it is still to delete its flags.
DeleteProjectCompleted(projectId) ==
    /\ findById(projectId) = {}
    /\ \A c \in Clients :
          ~ (inFlight[c].pc = "deleteProject.deleteMany" /\ inFlight[c].projectId = projectId)

\* C24 (as claimed): once deleteProject(P) has completed, no flag whose
\* project is P remains stored, under every interleaving of deleteProject
\* with concurrent createFlag calls for P.
C24_NoFlagOutlivesItsProject ==
    DeleteProjectCompleted("P") => \A f \in storedFlags : f.project # "P"

\* The flags stored beside a flag to be inserted that have its project and
\* its key.
SameKey(projectId, key) ==
    { f \in storedFlags : f.project = projectId /\ f.key = key }

\* C25: no two stored flags of a project have the same key, and a
\* createFlag whose key is used in the project when it inserts fails and
\* stores nothing, also when it passed the existence check before the
\* other createFlag inserted.
C25_KeysUniqueInProject ==
    [][/\ \A f1, f2 \in storedFlags' :
             (f1.project = f2.project /\ f1.key = f2.key) => f1 = f2
       /\ ( /\ lastCall'.op = "createFlag"
            /\ lastCall'.at \in {"Flag.findOne", "Flag.create"}
            /\ SameKey("P", lastCall'.key) # {} ) =>
              /\ storedFlags' = storedFlags
              /\ lastCall'.status = 400]_vars

\* Both clients passed the existence check for the same key; one has
\* inserted the flag and the other has been refused.
C25_Witness ==
    /\ lastCall.op = "createFlag"
    /\ lastCall.at = "Flag.create"
    /\ lastCall.status = 400
    /\ Cardinality(storedFlags) = 1
    /\ \A c \in Clients : inFlight[c].pc = "idle"
    /\ projects # {}

\* The keys "g" and "G" are both stored in the project: keys are compared
\* case-sensitively.
C25_CaseSensitive ==
    { f.key : f \in storedFlags } = {FlagKey, UpperKey}

\* role: enum ['viewer', 'editor', 'admin']
Roles == {"viewer", "editor", "admin"}

\* project.service.js addProjectMember; User.findOne({ email }) finds the
\* users of Users
addProjectMember(projectId, userId, role) ==
    /\ \/ /\ userId \notin Users \/ findById(projectId) = {}
          /\ projects' = projects
          /\ lastCall' = answered("addProjectMember", userId, 404)
       \/ /\ userId \in Users
          /\ \E project \in findById(projectId) :
                IF isMember(project, userId)
                THEN /\ projects' = projects
                     /\ lastCall' = answered("addProjectMember", userId, 400)
                ELSE /\ projects' = saveProject(
                           [project EXCEPT !.members =
                               Append(@, [user |-> userId, role |-> role])])
                     /\ lastCall' = answered("addProjectMember", userId, 201)
    /\ UNCHANGED <<flag, now, storedFlags, inFlight, bucketIdle, serviceVars, sdkVars>>

\* project.service.js updateMemberRole
updateMemberRole(projectId, memberId, role) ==
    /\ \/ /\ findById(projectId) = {}
          /\ projects' = projects
          /\ lastCall' = answered("updateMemberRole", memberId, 404)
       \/ \E project \in findById(projectId) :
             IF ~ isMember(project, memberId)
             THEN /\ projects' = projects
                  /\ lastCall' = answered("updateMemberRole", memberId, 404)
             ELSE /\ projects' = saveProject(
                        [project EXCEPT !.members =
                            [k \in DOMAIN @ |->
                                IF /\ @[k].user = memberId
                                   /\ \A j \in 1 .. k - 1 : @[j].user # memberId
                                THEN [@[k] EXCEPT !.role = role] ELSE @[k]]])
                  /\ lastCall' = answered("updateMemberRole", memberId, 200)
    /\ UNCHANGED <<flag, now, storedFlags, inFlight, bucketIdle, serviceVars, sdkVars>>

\* project.service.js removeMember
removeMember(projectId, memberId) ==
    /\ \/ /\ findById(projectId) = {}
          /\ projects' = projects
          /\ lastCall' = answered("removeMember", memberId, 404)
       \/ \E project \in findById(projectId) :
             IF project.owner = memberId
             THEN /\ projects' = projects
                  /\ lastCall' = answered("removeMember", memberId, 400)
             ELSE /\ projects' = saveProject(
                        [project EXCEPT !.members =
                            SelectSeq(@, LAMBDA member : member.user # memberId)])
                  /\ lastCall' = answered("removeMember", memberId, 200)
    /\ UNCHANGED <<flag, now, storedFlags, inFlight, bucketIdle, serviceVars, sdkVars>>

\* The members of the project change, and its staging environment.
NextMembers ==
    \/ \E userId \in Users \cup {"nobody"}, role \in Roles :
            addProjectMember("P", userId, role)
    \/ \E memberId \in Users, role \in Roles : updateMemberRole("P", memberId, role)
    \/ \E memberId \in Users : removeMember("P", memberId)
    \/ addEnvironment("P", "staging")
    \/ removeEnvironment("P", "staging")
    \/ regenerateApiKey("P", "staging")

SpecMembers == InitProject /\ [][NextMembers]_vars

\* C26 (as claimed): after every saved project operation, in any order,
\* the owner of the project is listed in members with the role admin; and
\* removeMember of the owner fails and leaves the project as it was.
C26_OwnerIsAdminMember ==
    /\ \A project \in projects :
          \E k \in 1 .. Len(project.members) :
              /\ project.members[k].user = project.owner
              /\ project.members[k].role = "admin"
    /\ (lastCall.op = "removeMember" /\ lastCall.argument = "u1") =>
          /\ lastCall.status = 400
          /\ projects = lastCall.before

\* C26 without the role: the owner is always listed in members, and
\* removeMember of the owner fails and leaves the project as it was.
C26_OwnerIsMember ==
    /\ \A project \in projects : isMember(project, project.owner)
    /\ (lastCall.op = "removeMember" /\ lastCall.argument = "u1") =>
          /\ lastCall.status = 400
          /\ projects = lastCall.before

(***************************************************************************)
(* flag.routes.js: PUT and DELETE /api/projects/:projectId/flags/:flagId.  *)
(* A middleware answers the set of errors it passes to next(): none when   *)
(* the request goes on.                                                    *)
(***************************************************************************)

\* req.user.role of the stored users: u3 is an administrator of the site
userRole(userId) == IF userId = "u3" THEN "admin" ELSE "user"

\* auth.middleware.js protect: the token names a stored user, or none
protect(token) ==
    IF token \in Users THEN {} ELSE {ErrorWithStatus("Error", 401)}

\* auth.middleware.js checkProjectAccess
checkProjectAccess(userId, projectId) ==
    IF findById(projectId) = {} THEN {ErrorWithStatus("Error", 404)}
    ELSE LET project == CHOOSE p \in findById(projectId) : TRUE
             isOwner == project.owner = userId
         IN  IF ~ isOwner /\ ~ isMember(project, userId) /\ userRole(userId) # "admin"
             THEN {ErrorWithStatus("Error", 403)}
             ELSE {}

\* auth.middleware.js checkProjectRole(...roles)
checkProjectRole(roles, userId, project) ==
    IF project.owner = userId THEN {}
    ELSE IF \E k \in 1 .. Len(project.members) :
               /\ project.members[k].user = userId
               /\ \A j \in 1 .. k - 1 : project.members[j].user # userId
               /\ project.members[k].role \in roles
         THEN {}
         ELSE {ErrorWithStatus("Error", 403)}

\* router.use(protect), router.use(checkProjectAccess) and the
\* checkProjectRole of the route: the first error passed to next()
middleware(roles, token, projectId) ==
    IF protect(token) # {} THEN protect(token)
    ELSE IF checkProjectAccess(token, projectId) # {}
         THEN checkProjectAccess(token, projectId)
         ELSE checkProjectRole(roles, token, CHOOSE p \in findById(projectId) : TRUE)

\* body('name').optional().trim().not().isEmpty()
validationErrors(body) ==
    IF "name" \in DOMAIN body /\ body.name = "" THEN {ErrorWithStatus("Error", 400)} ELSE {}

\* flag.service.js updateFlag: Flag.findByIdAndUpdate(flagId, ...)
findByIdAndUpdate(flagId, userId, updateData) ==
    { IF f._id = flagId
      THEN [f EXCEPT !.name = updateData.name, !.updatedBy = userId]
      ELSE f : f \in storedFlags }

\* flag.service.js deleteFlag: Flag.findByIdAndDelete(flagId)
findByIdAndDelete(flagId) == { f \in storedFlags : f._id # flagId }

\* The response of a management route, with the request it answers
responded(op, token, projectId, flagId, status) ==
    [op |-> op, user |-> token, projectId |-> projectId, flagId |-> flagId,
     status |-> status]

\* PUT /:flagId: checkProjectRole('admin', 'editor'), then
\* flagController.updateFlag and flagService.updateFlag
updateFlag(token, projectId, flagId, body) ==
    /\ \E errors \in {middleware({"admin", "editor"}, token, projectId)} :
          IF errors # {}
          THEN /\ storedFlags' = storedFlags
               /\ \E err \in errors :
                     lastCall' = responded("updateFlag", token, projectId, flagId,
                                           errorMiddleware(err).status)
          ELSE IF validationErrors(body) # {}
          THEN /\ storedFlags' = storedFlags
               /\ lastCall' = responded("updateFlag", token, projectId, flagId, 400)
          ELSE IF \A f \in storedFlags : f._id # flagId
          THEN /\ storedFlags' = storedFlags
               /\ lastCall' = responded("updateFlag", token, projectId, flagId, 404)
          ELSE /\ storedFlags' = findByIdAndUpdate(flagId, token, body)
               /\ lastCall' = responded("updateFlag", token, projectId, flagId, 200)
    /\ UNCHANGED <<flag, now, projects, inFlight, bucketIdle, serviceVars, sdkVars>>

\* DELETE /:flagId: checkProjectRole('admin'), then
\* flagController.deleteFlag and flagService.deleteFlag
deleteFlag(token, projectId, flagId) ==
    /\ \E errors \in {middleware({"admin"}, token, projectId)} :
          IF errors # {}
          THEN /\ storedFlags' = storedFlags
               /\ \E err \in errors :
                     lastCall' = responded("deleteFlag", token, projectId, flagId,
                                           errorMiddleware(err).status)
          ELSE IF \A f \in storedFlags : f._id # flagId
          THEN /\ storedFlags' = storedFlags
               /\ lastCall' = responded("deleteFlag", token, projectId, flagId, 404)
          ELSE /\ storedFlags' = findByIdAndDelete(flagId)
               /\ lastCall' = responded("deleteFlag", token, projectId, flagId, 200)
    /\ UNCHANGED <<flag, now, projects, inFlight, bucketIdle, serviceVars, sdkVars>>

\* Project P of u1, where u3 may be a member, and project Q of u2; flag 1
\* belongs to P and flag 2 to Q (the fields the two routes read and write).
InitRoutes ==
    /\ flag = createFlag(FlagKey, "BOOLEAN", <<>>)
    /\ now = 1
    /\ lastCall = [op |-> "createProject", status |-> 201]
    /\ str = <<>>
    /\ i = 0
    /\ hash = 0
    /\ normalizedHash = NotComputed
    /\ serviceIdle
    /\ sdkIdle
    /\ \E members \in {<<>>} \cup { <<[user |-> "u3", role |-> role]>> : role \in Roles } :
          projects = { preSave([createProject("P", "u1", <<>>) EXCEPT
                                   !.members = @ \o members]),
                       createProject("Q", "u2", <<>>) }
    /\ storedFlags = { [_id |-> 1, project |-> "P", key |-> "g", name |-> "n1",
                        updatedBy |-> "u1"],
                       [_id |-> 2, project |-> "Q", key |-> "g", name |-> "n1",
                        updatedBy |-> "u2"] }
    /\ inFlight = [c \in Clients |-> [pc |-> "idle"]]

\* Requests of every user, and of a caller without a valid token, on the
\* two projects and a project that does not exist.
NextRoutes ==
    \/ \E token \in Users \cup {"nobody"}, projectId \in {"P", "Q", "X"},
          flagId \in 1 .. MaxFlags + 1, body \in {[name |-> "n2"], [name |-> ""]} :
            updateFlag(token, projectId, flagId, body)
    \/ \E token \in Users \cup {"nobody"}, projectId \in {"P", "Q", "X"},
          flagId \in 1 .. MaxFlags + 1 :
            deleteFlag(token, projectId, flagId)

SpecRoutes == InitRoutes /\ [][NextRoutes]_vars

\* The user is the owner of the project or a member with one of the roles.
hasProjectRole(userId, projectId, roles) ==
    \E project \in findById(projectId) :
        \/ project.owner = userId
        \/ \E k \in 1 .. Len(project.members) :
              /\ project.members[k].user = userId
              /\ project.members[k].role \in roles

\* C27 (as claimed): a flag is changed through the management routes only
\* by an owner, editor or admin of the project that owns the flag, and
\* deleted only by an owner or admin of that project.
C27_OnlyByUsersOfTheOwningProject ==
    [][\A f \in storedFlags :
          f \notin storedFlags' =>
              IF \E g \in storedFlags' : g._id = f._id
              THEN hasProjectRole(lastCall'.user, f.project, {"admin", "editor"})
              ELSE hasProjectRole(lastCall'.user, f.project, {"admin"})]_vars

\* What the routes do enforce: the role in the project named in the URL.
C27_OnlyByUsersOfTheNamedProject ==
    [][\A f \in storedFlags :
          f \notin storedFlags' =>
              IF \E g \in storedFlags' : g._id = f._id
              THEN hasProjectRole(lastCall'.user, lastCall'.projectId, {"admin", "editor"})
              ELSE hasProjectRole(lastCall'.user, lastCall'.projectId, {"admin"})]_vars

\* C29: under every interleaving of evaluations and their recordings,
\* metrics.evaluations of the flag never exceeds the number of Evaluation
\* documents stored for it, and equals it once every recording dispatched
\* has completed and none has rejected; a recording is dispatched only by
\* an evaluation that returned a value.
C29_CounterFollowsRecords ==
    [][/\ metrics'.evaluations <= metrics'.documents
       /\ (recordings' = <<>> /\ ~ metrics'.rejected) =>
              metrics'.evaluations = metrics'.documents
       /\ Len(recordings') > Len(recordings) =>
              /\ lastCall'.op \in {"evaluateFlag", "evaluateAllFlags"}
              /\ lastCall'.op = "evaluateFlag" =>
                    /\ lastCall'.outcome.kind = "return"
                    /\ Len(recordings') = Len(recordings) + 1]_vars

\* Two recordings in flight at once have both completed, none rejected.
C29_Witness ==
    /\ recordings = <<>>
    /\ ~ metrics.rejected
    /\ metrics.documents = MaxRecordings
    /\ metrics.evaluations = MaxRecordings

\* A recording that rejected after its record was created leaves the
\* counter behind the records for good.
C29_CounterBehind ==
    /\ recordings = <<>>
    /\ metrics.rejected
    /\ metrics.evaluations < metrics.documents

\* An evaluation has failed, and no recording is in flight or stored.
C29_FailedEvaluation ==
    /\ lastCall.op = "evaluateFlag"
    /\ lastCall.outcome.kind = "throw"
    /\ recordings = <<>>
    /\ metrics.documents = 0

(***************************************************************************)
(* The PERCENTAGE rule over its values: evaluateRule applied to rules of   *)
(* every percentage and to contexts that differ in userId and in the       *)
(* other attributes.                                                       *)
(***************************************************************************)
\* Percentages around the buckets 3, 48, 49 and 50 of the users, and the ends.
Percentages == {0, 1, 3, 4, 48, 49, 50, 51, 99, 100}

RolloutContexts ==
    { [userId |-> userId, plan |-> plan, region |-> Undefined, beta |-> beta] :
        userId \in UserIds, plan \in {Undefined, "pro"}, beta \in {Undefined, JsTrue} }

\* The context of the requests is drawn at the start; the rules evaluated
\* against it vary.
InitRollout ==
    /\ flag = createFlag(FlagKey, "BOOLEAN", <<>>)
    /\ now = 1
    /\ \E context \in RolloutContexts : lastCall = [op |-> "context", context |-> context]
    /\ str = <<>>
    /\ i = 0
    /\ hash = 0
    /\ normalizedHash = NotComputed
    /\ serviceIdle
    /\ sdkIdle
    /\ projectIdle

\* this.evaluateRule(rule, context) on a PERCENTAGE rule
EvaluateRule(rule, context) ==
    /\ lastCall' = [op |-> "evaluateRule", rule |-> rule, context |-> context,
                    result |-> evaluateRule(rule, context, flag.key, now)]
    /\ UNCHANGED <<flag, now, bucketIdle, serviceVars, sdkVars, projectVars>>

NextRollout ==
    \E value \in Percentages :
        EvaluateRule([type |-> "PERCENTAGE", priority |-> 10, value |-> value],
                     lastCall.context)

SpecRollout == InitRollout /\ [][NextRollout]_vars

\* C30: a PERCENTAGE rule that matches a context also matches it at every
\* greater percentage up to 100; a rule of value 0 matches no context and
\* a rule of value 100 every context; and the decision is the same for
\* every context with the same userId.
C30_PercentageMonotone ==
    lastCall.op = "evaluateRule" =>
        /\ lastCall.result.matches =>
              \A value \in Percentages :
                  value >= lastCall.rule.value =>
                      evaluateRule([lastCall.rule EXCEPT !.value = value],
                                   lastCall.context, flag.key, now).matches
        /\ lastCall.rule.value = 0 => ~ lastCall.result.matches
        /\ lastCall.rule.value = 100 => lastCall.result.matches
        /\ \A other \in RolloutContexts :
              other.userId = lastCall.context.userId =>
                  evaluateRule(lastCall.rule, other, flag.key, now).matches
                      = lastCall.result.matches

\* The user of bucket 49, with other attributes in the context, is matched
\* by the rule of 50 percent.
C30_Witness ==
    /\ lastCall.op = "evaluateRule"
    /\ lastCall.rule.value = 50
    /\ lastCall.context.userId = User49
    /\ lastCall.context.plan = "pro"
    /\ lastCall.result.matches

\* The user of bucket 50 is not matched by the rule of 50 percent.
C30_NotMatchedBelow ==
    /\ lastCall.op = "evaluateRule"
    /\ lastCall.rule.value = 50
    /\ lastCall.context.userId = User50
    /\ ~ lastCall.result.matches

====
